---------------------------- MODULE Spec2Model ----------------------------
(***************************************************************************)
(* Model of the FAQ markdown chunker (faq-mcp/docs/handle_raw_data.py).    *)
(* Texts are sequences of one-character strings; the regular expressions   *)
(* of the source are modelled by operators that compute the same matches   *)
(* (leftmost, greedy / lazy, with backtracking) on those sequences.        *)
(***************************************************************************)
EXTENDS Integers, Sequences, FiniteSets, TLC

VARIABLES
    content,            \* the text handed to the operation under way
    overlap_tokens,     \* FAQProcessor.overlap_tokens
    max_length,         \* argument max_length of chunk_by_fixed_length
    metadata,           \* argument metadata of the chunkers (None when omitted)
    pc,                 \* position of the running call
    words,              \* chunk_by_fixed_length: text.split()
    i,                  \* chunk_by_fixed_length: loop index
    starts,             \* history: the value of i at each chunks.append
    sections,           \* extract_qa_pairs: result of _split_by_sections
    k,                  \* extract_qa_pairs: number of sections already processed
    chunks,             \* the chunk list being built / returned
    file_path,          \* process_markdown_file: argument file_path
    file_text,          \* process_markdown_file: the text of the file at file_path
    chunking_strategy,  \* process_markdown_file: argument chunking_strategy
    error,              \* the exception the call raised, NoError while none
    input_files,        \* main: the files of Path(args.input).glob("**/*.md")
    file_no,            \* main: number of files the loop has taken
    all_chunks,         \* main: all_chunks
    extended,           \* history: the files whose chunks all_chunks.extend added
    saved,              \* main: what save_chunks_to_json wrote, NotSaved before
    main_pc,            \* position of main
    session,            \* Server.session
    op,                 \* history: the method of Server called last
    srv_pc,             \* position of the running method of Server
    retries,            \* execute_tool: argument retries
    attempt,            \* execute_tool: attempt
    events,             \* history: the call_tool invocations and sleeps of the running method
    outcome,            \* what the method called last returned or raised
    init_ok,            \* history: the last initialize succeeded and no cleanup ran since
    documents,          \* split_markdown_docs: argument documents
    split_docs,         \* split_markdown_docs: split_docs
    doc_no,             \* split_markdown_docs: number of documents the loop has taken
    kept,               \* history: the positions of split_docs that hold an original document
    loader_pc,          \* position of split_markdown_docs
    builtins_print,     \* builtins.print
    original_print,     \* test_retrieval: original_print of each request
    results,            \* test_retrieval: results of each request
    req_pc,             \* position of each test_retrieval request
    outside_prints,     \* number of print calls made outside test_retrieval
    page,               \* get_pr_reviewers: page
    approval_comment,   \* get_pr_reviewers: approval_comment
    requested,          \* history: the page numbers requested, in order
    comments_data,      \* get_pr_reviewers: comments_data of the last request
    pr_result,          \* what get_pr_reviewers returned, NoResult before
    pr_pc,              \* position of get_pr_reviewers
    flask_session,      \* session.get('tidb_connection_string')
    response,           \* the answer to the last request of the session
    last_ping,          \* history: the connection string of the latest ping_tidb that carried one
    ui_requests         \* history: the number of requests answered

\* what only process_markdown_file reads and writes
fileVars == <<file_path, file_text, chunking_strategy, error>>

\* the variables of FAQProcessor and its calls
faqVars == <<content, overlap_tokens, max_length, metadata, pc, words, i, starts,
             sections, k, chunks, file_path, file_text, chunking_strategy, error>>

\* what only main reads and writes
batchVars == <<input_files, file_no, all_chunks, extended, saved, main_pc>>

\* what only Server (lark-bot) reads and writes
serverVars == <<session, op, srv_pc, retries, attempt, events, outcome, init_ok>>

\* what only split_markdown_docs reads and writes
loaderVars == <<documents, split_docs, doc_no, kept, loader_pc>>

\* what only test_retrieval (its capture of print) reads and writes
printVars == <<builtins_print, original_print, results, req_pc, outside_prints>>

\* what only get_pr_reviewers reads and writes
reviewersVars == <<page, approval_comment, requested, comments_data, pr_result, pr_pc>>

\* what only the web UI (one browser session) reads and writes
uiVars == <<flask_session, response, last_ping, ui_requests>>

\* the variables outside FAQProcessor
otherVars == <<batchVars, serverVars, loaderVars, printVars, reviewersVars, uiVars>>

\* the variables main leaves alone
notBatch == <<faqVars, serverVars, loaderVars, printVars, reviewersVars, uiVars>>

\* the variables Server (lark-bot) leaves alone
notServer == <<faqVars, batchVars, loaderVars, printVars, reviewersVars, uiVars>>

\* the variables split_markdown_docs leaves alone
notLoader == <<faqVars, batchVars, serverVars, printVars, reviewersVars, uiVars>>

\* the variables test_retrieval (its capture of print) leaves alone
notPrint == <<faqVars, batchVars, serverVars, loaderVars, reviewersVars, uiVars>>

\* the variables get_pr_reviewers leaves alone
notReviewers == <<faqVars, batchVars, serverVars, loaderVars, printVars, uiVars>>

\* the variables the web UI (one browser session) leaves alone
notUi == <<faqVars, batchVars, serverVars, loaderVars, printVars, reviewersVars>>

\* the variables neither FAQProcessor nor main writes
outsideMain == <<serverVars, loaderVars, printVars, reviewersVars, uiVars>>

vars == <<faqVars, otherVars>>

(***************************************************************************)
(* Bounds of the model.                                                    *)
(***************************************************************************)
MaxWords == 25
MaxLength == 10
MaxTextLen == 6
MaxFrags == 3
MaxCleanFrags == 3

(***************************************************************************)
(* Characters and strings.                                                 *)
(***************************************************************************)
NL == "\n"
SP == " "

\* what \s and str.strip() / str.split() treat as whitespace (of the alphabet used)
IsSpace(c) == c \in {" ", "\n", "\t"}

IsDigit(c) == c \in {"0", "1", "2", "3", "4", "5", "6", "7", "8", "9"}

Min(a, b) == IF a < b THEN a ELSE b
Max(a, b) == IF a > b THEN a ELSE b

\* s[a:b] of Python for a sequence (0-based, negative indices count from the end)
PyIndex(n, a) == IF a < 0 THEN Max(a + n, 0) ELSE Min(a, n)
PySlice(s, a, b) ==
    LET lo == PyIndex(Len(s), a)
        hi == PyIndex(Len(s), b)
    IN  IF lo < hi THEN SubSeq(s, lo + 1, hi) ELSE <<>>

\* str.strip()
RECURSIVE LStrip(_)
LStrip(s) == IF s # <<>> /\ IsSpace(Head(s)) THEN LStrip(Tail(s)) ELSE s
RECURSIVE RStrip(_)
RStrip(s) == IF s # <<>> /\ IsSpace(s[Len(s)]) THEN RStrip(SubSeq(s, 1, Len(s) - 1)) ELSE s
Strip(s) == RStrip(LStrip(s))

\* str.split() without arguments: the maximal runs of non-whitespace
RECURSIVE SplitFrom(_, _, _)
SplitFrom(s, p, cur) ==
    IF p > Len(s) THEN (IF cur = <<>> THEN <<>> ELSE <<cur>>)
    ELSE IF IsSpace(s[p])
         THEN (IF cur = <<>> THEN <<>> ELSE <<cur>>) \o SplitFrom(s, p + 1, <<>>)
         ELSE SplitFrom(s, p + 1, Append(cur, s[p]))
Split(s) == SplitFrom(s, 1, <<>>)

\* sep.join(ws)
RECURSIVE Join(_, _)
Join(ws, sep) ==
    IF ws = <<>> THEN <<>>
    ELSE IF Len(ws) = 1 THEN ws[1]
    ELSE ws[1] \o sep \o Join(Tail(ws), sep)

\* s has pat at (1-based) position p
HasAt(s, p, pat) ==
    /\ p >= 1
    /\ p + Len(pat) - 1 <= Len(s)
    /\ \A j \in 1..Len(pat) : s[p + j - 1] = pat[j]

\* pat in s
Contains(s, pat) == \E p \in 1..(Len(s) + 1) : HasAt(s, p, pat)

(***************************************************************************)
(* Metadata dictionaries are records; None is the omitted argument.        *)
(***************************************************************************)
None == [none |-> TRUE]
EmptyDict == [x \in {} |-> ""]

\* metadata or {}
MetadataOrEmpty(m) == IF m = None THEN EmptyDict ELSE m

\* no exception raised
NoError == <<>>

\* a chunker called directly: no file, no strategy argument
NoFile ==
    /\ file_path = ""
    /\ file_text = <<>>
    /\ chunking_strategy = ""
    /\ error = NoError

(***************************************************************************)
(* The components at rest.                                                 *)
(***************************************************************************)
NotSaved == [saved |-> FALSE]
\* main is not running
BatchIdle ==
    /\ input_files = <<>>
    /\ file_no = 0
    /\ all_chunks = <<>>
    /\ extended = <<>>
    /\ saved = NotSaved
    /\ main_pc = ""

NoOutcome == [kind |-> "none"]
\* Server (lark-bot) is not running
ServerIdle ==
    /\ session = None
    /\ op = ""
    /\ srv_pc = ""
    /\ retries = 0
    /\ attempt = 0
    /\ events = <<>>
    /\ outcome = NoOutcome
    /\ init_ok = FALSE

\* split_markdown_docs is not running
LoaderIdle ==
    /\ documents = <<>>
    /\ split_docs = <<>>
    /\ doc_no = 0
    /\ kept = {}
    /\ loader_pc = ""

PrintFunction == [fn |-> "print"]
\* test_retrieval (its capture of print) is not running
PrintIdle ==
    /\ builtins_print = PrintFunction
    /\ original_print = <<>>
    /\ results = <<>>
    /\ req_pc = <<>>
    /\ outside_prints = 0

NoResult == ""
\* get_pr_reviewers is not running
ReviewersIdle ==
    /\ page = 0
    /\ approval_comment = None
    /\ requested = <<>>
    /\ comments_data = None
    /\ pr_result = NoResult
    /\ pr_pc = ""

\* a form field or session key that is absent (get returns None), and one that holds v
Absent == [present |-> FALSE, value |-> ""]
Field(v) == [present |-> TRUE, value |-> v]
NoResponse == [handler |-> "", status |-> 0, success |-> FALSE, message |-> ""]
\* the web UI (one browser session) is not running
UiIdle ==
    /\ flask_session = Absent
    /\ response = NoResponse
    /\ last_ping = Absent
    /\ ui_requests = 0

\* no call of FAQProcessor is running
FaqIdle ==
    /\ NoFile
    /\ content = <<>> /\ overlap_tokens = 0 /\ max_length = 0 /\ metadata = None
    /\ pc = "" /\ words = <<>> /\ i = 0 /\ starts = <<>> /\ sections = <<>>
    /\ k = 0 /\ chunks = <<>>

\* nothing but Server (lark-bot) is running
OutsideServerIdle == FaqIdle /\ BatchIdle /\ LoaderIdle /\ PrintIdle /\ ReviewersIdle /\ UiIdle
\* nothing but split_markdown_docs is running
OutsideLoaderIdle == FaqIdle /\ BatchIdle /\ ServerIdle /\ PrintIdle /\ ReviewersIdle /\ UiIdle
\* nothing but test_retrieval (its capture of print) is running
OutsidePrintIdle == FaqIdle /\ BatchIdle /\ ServerIdle /\ LoaderIdle /\ ReviewersIdle /\ UiIdle
\* nothing but get_pr_reviewers is running
OutsideReviewersIdle == FaqIdle /\ BatchIdle /\ ServerIdle /\ LoaderIdle /\ PrintIdle /\ UiIdle
\* nothing but the web UI (one browser session) is running
OutsideUiIdle == FaqIdle /\ BatchIdle /\ ServerIdle /\ LoaderIdle /\ PrintIdle /\ ReviewersIdle
OutsideMainIdle == ServerIdle /\ LoaderIdle /\ PrintIdle /\ ReviewersIdle /\ UiIdle
OtherIdle == BatchIdle /\ ServerIdle /\ LoaderIdle /\ PrintIdle /\ ReviewersIdle /\ UiIdle

(***************************************************************************)
(* chunk_by_paragraph                                                      *)
(***************************************************************************)
\* mutant of ParaMatchEnd: the pattern \n\n, no whitespace between the newlines
ParaMatchEnd_Adjacent(s, p) == IF HasAt(s, p, <<NL, NL>>) THEN p + 1 ELSE 0

\* the match of r'\n\s*\n' at position p: the position of its last character,
\* 0 when the pattern does not match there. \s* is greedy, so the match ends
\* at the last newline of the whitespace that follows s[p].
ParaMatchEnd(s, p) ==
    IF p > Len(s) \/ s[p] # NL THEN 0
    ELSE LET ends == {q \in (p + 1)..Len(s) :
                         /\ s[q] = NL
                         /\ \A r \in (p + 1)..(q - 1) : IsSpace(s[r])}
         IN  IF ends = {} THEN 0 ELSE CHOOSE q \in ends : \A r \in ends : r <= q

\* re.split(r'\n\s*\n', text): the pieces between the leftmost matches
RECURSIVE ParaSplitFrom(_, _, _)
ParaSplitFrom(s, p, from) ==
    IF p > Len(s) THEN <<SubSeq(s, from, Len(s))>>
    ELSE LET e == ParaMatchEnd(s, p)
         IN  IF e > 0
             THEN <<SubSeq(s, from, p - 1)>> \o ParaSplitFrom(s, e + 1, e + 1)
             ELSE ParaSplitFrom(s, p + 1, from)
ParaSplit(s) == ParaSplitFrom(s, 1, 1)

\* the chunk dictionary built at lines 130-134
ParagraphChunk(para, m) ==
    [text |-> Strip(para),
     metadata |-> MetadataOrEmpty(m),
     chunk_type |-> "paragraph"]

\* lines 126-135: the loop over the paragraphs
RECURSIVE ParagraphChunks(_, _)
ParagraphChunks(paragraphs, m) ==
    IF paragraphs = <<>> THEN <<>>
    ELSE IF Strip(Head(paragraphs)) = <<>>
         THEN ParagraphChunks(Tail(paragraphs), m)
         ELSE <<ParagraphChunk(Head(paragraphs), m)>>
                  \o ParagraphChunks(Tail(paragraphs), m)

\* mutant of ChunkByParagraphOf: the paragraphs that are empty kept
RECURSIVE ParagraphChunks_KeepEmpty(_, _)
ParagraphChunks_KeepEmpty(paragraphs, m) ==
    IF paragraphs = <<>> THEN <<>>
    ELSE <<ParagraphChunk(Head(paragraphs), m)>>
             \o ParagraphChunks_KeepEmpty(Tail(paragraphs), m)
ChunkByParagraphOf_KeepEmpty(text, m) == ParagraphChunks_KeepEmpty(ParaSplit(text), m)

\* mutant of ChunkByParagraphOf: the chunks in the reverse order
ChunkByParagraphOf_Reversed(text, m) ==
    LET cs == ParagraphChunks(ParaSplit(text), m)
    IN  [j \in 1..Len(cs) |-> cs[Len(cs) + 1 - j]]

\* chunk_by_paragraph(text, metadata)
ChunkByParagraphOf(text, m) == ParagraphChunks(ParaSplit(text), m)

\* the input texts of the paragraph chunker
ParaAlphabet == {"A", "B", SP, NL}
ParaExample == <<"A", NL, NL, "B", NL, NL, NL, "C">>
ParaTexts ==
    UNION {[1..n -> ParaAlphabet] : n \in 0..MaxTextLen} \cup {ParaExample}

ParaInit ==
    /\ content \in ParaTexts
    /\ metadata \in {None, [source |-> "FAQ.md"]}
    /\ overlap_tokens = 50
    /\ max_length = 500
    /\ pc = "call"
    /\ words = <<>>
    /\ i = 0
    /\ starts = <<>>
    /\ sections = <<>>
    /\ k = 0
    /\ chunks = <<>>
    /\ NoFile
    /\ OtherIdle

\* lines 121-137: the whole call
ChunkByParagraph ==
    /\ pc = "call"
    /\ chunks' = ChunkByParagraphOf(content, metadata)
    /\ pc' = "done"
    /\ UNCHANGED <<fileVars, otherVars>>
    /\ UNCHANGED <<content, overlap_tokens, max_length, metadata, words, i, starts,
                   sections, k>>

ParaNext == ChunkByParagraph

SpecParagraph == ParaInit /\ [][ParaNext]_vars

(***************************************************************************)
(* _split_by_sections                                                      *)
(***************************************************************************)
H2 == <<"#", "#">>
H4 == <<"#", "#", "#", "#">>
TableOfContents ==
    <<"T", "a", "b", "l", "e", " ", "o", "f", " ",
      "C", "o", "n", "t", "e", "n", "t", "s">>

NoMatch == [ok |-> FALSE]

\* the position of the first newline at or after t, 0 when there is none
FirstNewline(s, t) ==
    LET nls == {e \in t..Len(s) : s[e] = NL}
    IN  IF nls = {} THEN 0 ELSE CHOOSE e \in nls : \A r \in nls : e <= r

\* the last position of the whitespace run \s+ may take from position a on
\* (a - 1 when s[a] is no whitespace)
RECURSIVE SpaceRunEnd(_, _)
SpaceRunEnd(s, a) ==
    IF a <= Len(s) /\ IsSpace(s[a]) THEN SpaceRunEnd(s, a + 1) ELSE a - 1

\* ([\s\S]+?)(?=stop|\Z) from position a on: the lazy group takes at least
\* one character and ends before the first later occurrence of stop, or at
\* the end of the text; 0 when no character is left at a
LazyEnd(s, a, stop) ==
    IF a > Len(s) THEN 0
    ELSE LET ends == {r \in a..Len(s) : r = Len(s) \/ HasAt(s, r + 1, stop)}
         IN  CHOOSE r \in ends : \A q \in ends : r <= q

\* the lookahead (?=##|\Z) of section_pattern
SectionStop == H2

\* section_pattern = r'##\s+([^\n]+)\n([\s\S]+?)(?=##|\Z)' matched at p.
\* \s+ is greedy and gives characters back: t is where group 1 starts, the
\* largest position after the whitespace for which the rest matches. Group 1
\* must run to the first newline e and group 2 must hold a character.
SectionMatchAt(s, p) ==
    IF ~HasAt(s, p, H2) THEN NoMatch
    ELSE LET wsEnd == SpaceRunEnd(s, p + 2)
             ts == {t \in (p + 3)..(wsEnd + 1) :
                       /\ t <= Len(s)
                       /\ s[t] # NL
                       /\ FirstNewline(s, t) > 0
                       /\ FirstNewline(s, t) < Len(s)}
         IN  IF ts = {} THEN NoMatch
             ELSE LET t == CHOOSE x \in ts : \A y \in ts : y <= x
                      e == FirstNewline(s, t)
                  IN  [ok |-> TRUE, start |-> p,
                       g1 |-> SubSeq(s, t, e - 1),
                       g2from |-> e + 1,
                       end |-> LazyEnd(s, e + 1, SectionStop)]

\* re.finditer(section_pattern, content): the leftmost matches, each search
\* starting where the previous match ended
RECURSIVE SectionMatches(_, _)
SectionMatches(s, p) ==
    IF p > Len(s) THEN <<>>
    ELSE LET m == SectionMatchAt(s, p)
         IN  IF m.ok THEN <<m>> \o SectionMatches(s, m.end + 1)
             ELSE SectionMatches(s, p + 1)

\* lines 78-89: the loop over the matches
RECURSIVE SectionsOf(_, _)
SectionsOf(s, ms) ==
    IF ms = <<>> THEN <<>>
    ELSE LET m == Head(ms)
             section_title == Strip(m.g1)
             section_content == Strip(SubSeq(s, m.g2from, m.end))
         IN  IF Contains(section_title, TableOfContents)
             THEN SectionsOf(s, Tail(ms))
             ELSE <<[title |-> section_title, content |-> section_content]>>
                      \o SectionsOf(s, Tail(ms))

\* _split_by_sections(content)
SplitBySections(s) == SectionsOf(s, SectionMatches(s, 1))

(***************************************************************************)
(* extract_qa_pairs                                                        *)
(***************************************************************************)
\* the end of the run of digits \d+ takes from position a on (a - 1: none)
RECURSIVE DigitRunEnd(_, _)
DigitRunEnd(s, a) ==
    IF a <= Len(s) /\ IsDigit(s[a]) THEN DigitRunEnd(s, a + 1) ELSE a - 1

\* qa_pattern = r'####\s+(Q\d+:.+?)\n([\s\S]+?)(?=####|\Z)' matched at p.
\* \s+ must take the whole whitespace run (Q follows it), \d+ the whole run
\* of digits (: follows it), and .+? runs to the first newline.
QaMatchAt(s, p) ==
    IF ~HasAt(s, p, H4) THEN NoMatch
    ELSE LET t == SpaceRunEnd(s, p + 4) + 1
             d == DigitRunEnd(s, t + 1)
             e == FirstNewline(s, d + 2)
         IN  IF /\ t > p + 4
                /\ t <= Len(s) /\ s[t] = "Q"
                /\ d > t
                /\ d + 1 <= Len(s) /\ s[d + 1] = ":"
                /\ d + 2 <= Len(s) /\ s[d + 2] # NL
                /\ e > 0 /\ e < Len(s)
             THEN [ok |-> TRUE, start |-> p,
                   g1 |-> SubSeq(s, t, e - 1),
                   g2from |-> e + 1,
                   end |-> LazyEnd(s, e + 1, H4)]
             ELSE NoMatch

\* alt_qa_pattern = r'####\s+([^#\n]+?)\n([\s\S]+?)(?=####|\Z)' matched at
\* p: group 1 starts at the largest t after the whitespace from which the
\* line holds no # up to its newline e.
AltQaMatchAt(s, p) ==
    IF ~HasAt(s, p, H4) THEN NoMatch
    ELSE LET wsEnd == SpaceRunEnd(s, p + 4)
             ts == {t \in (p + 5)..(wsEnd + 1) :
                       /\ t <= Len(s)
                       /\ s[t] # NL
                       /\ FirstNewline(s, t) > 0
                       /\ FirstNewline(s, t) < Len(s)
                       /\ \A r \in t..(FirstNewline(s, t) - 1) : s[r] # "#"}
         IN  IF ts = {} THEN NoMatch
             ELSE LET t == CHOOSE x \in ts : \A y \in ts : y <= x
                      e == FirstNewline(s, t)
                  IN  [ok |-> TRUE, start |-> p,
                       g1 |-> SubSeq(s, t, e - 1),
                       g2from |-> e + 1,
                       end |-> LazyEnd(s, e + 1, H4)]

\* list(re.finditer(qa_pattern, section_content))
RECURSIVE QaMatches(_, _)
QaMatches(s, p) ==
    IF p > Len(s) THEN <<>>
    ELSE LET m == QaMatchAt(s, p)
         IN  IF m.ok THEN <<m>> \o QaMatches(s, m.end + 1)
             ELSE QaMatches(s, p + 1)

\* list(re.finditer(alt_qa_pattern, section_content))
RECURSIVE AltQaMatches(_, _)
AltQaMatches(s, p) ==
    IF p > Len(s) THEN <<>>
    ELSE LET m == AltQaMatchAt(s, p)
         IN  IF m.ok THEN <<m>> \o AltQaMatches(s, m.end + 1)
             ELSE AltQaMatches(s, p + 1)

\* lines 25-34: the primary pattern, the alternative one when it finds nothing
QaPairs(s) ==
    IF QaMatches(s, 1) # <<>> THEN QaMatches(s, 1) ELSE AltQaMatches(s, 1)

\* re.sub(r'^Q\d+:\s*', '', question)
RemoveQPrefix(q) ==
    LET d == DigitRunEnd(q, 2)
    IN  IF /\ q # <<>> /\ q[1] = "Q"
           /\ d >= 2
           /\ d + 1 <= Len(q) /\ q[d + 1] = ":"
        THEN SubSeq(q, SpaceRunEnd(q, d + 2) + 1, Len(q))
        ELSE q

\* the chunk dictionary built at lines 45-55
QaChunk(s, m, section_title) ==
    [question |-> RemoveQPrefix(Strip(m.g1)),
     answer |-> Strip(SubSeq(s, m.g2from, m.end)),
     section |-> section_title,
     metadata |-> [source |-> "FAQ.md", section |-> section_title, type |-> "qa_pair"],
     chunk_type |-> "qa_pair"]

RECURSIVE QaChunks(_, _, _)
QaChunks(s, ms, section_title) ==
    IF ms = <<>> THEN <<>>
    ELSE <<QaChunk(s, Head(ms), section_title)>> \o QaChunks(s, Tail(ms), section_title)

\* mutant of FallbackMetadata: the type of the Q&A chunks copied
FallbackMetadata_QaType(section_title) ==
    [source |-> "FAQ.md", section |-> section_title, type |-> "qa_pair"]

\* the metadata of the paragraph fallback, lines 61-65
FallbackMetadata(section_title) ==
    [source |-> "FAQ.md", section |-> section_title, type |-> "paragraph"]

\* lines 21-66: the chunks one section adds
SectionChunks(section_info) ==
    LET section_title == section_info.title
        section_content == section_info.content
        qa_pairs == QaPairs(section_content)
    IN  IF qa_pairs # <<>>
        THEN QaChunks(section_content, qa_pairs, section_title)
        ELSE ChunkByParagraphOf(section_content, FallbackMetadata(section_title))

\* the documents handed to extract_qa_pairs: up to MaxFrags of these pieces
Frags ==
    { <<"#", "#", " ", "T", NL>>,
      <<"#", "#", " ", "U", " ", NL>>,
      <<"#", "#", " ">> \o TableOfContents \o <<NL>>,
      <<"#", "#", "#", "#", " ", "Q", "1", ":", " ", "a", NL, "b", NL>>,
      <<"#", "#", "#", "#", " ", "c", NL, "b", NL>>,
      <<"a", NL, NL, "b", NL>>,
      <<"a", " ", "#", "#", " ", "b", NL>>,
      <<"#", "#", "#", " ", "c", NL>>,
      <<"#", "#", "b", NL>>,
      <<"b">> }

RECURSIVE FragDocs(_)
FragDocs(n) ==
    IF n = 0 THEN {<<>>}
    ELSE FragDocs(n - 1) \cup {d \o f : d \in FragDocs(n - 1), f \in Frags}

QaInit ==
    /\ content \in FragDocs(MaxFrags)
    /\ metadata = None
    /\ overlap_tokens = 50
    /\ max_length = 500
    /\ pc = "call"
    /\ words = <<>>
    /\ i = 0
    /\ starts = <<>>
    /\ sections = <<>>
    /\ k = 0
    /\ chunks = <<>>
    /\ NoFile
    /\ OtherIdle

\* lines 15-18: chunks = []; sections = self._split_by_sections(content)
ExtractQaPairs ==
    /\ pc = "call"
    /\ chunks' = <<>>
    /\ sections' = SplitBySections(content)
    /\ k' = 0
    /\ pc' = "for"
    /\ UNCHANGED <<fileVars, otherVars>>
    /\ UNCHANGED <<content, overlap_tokens, max_length, metadata, words, i, starts>>

\* lines 20-66: one iteration of the loop over the sections
ProcessSection ==
    /\ pc = "for"
    /\ k < Len(sections)
    /\ chunks' = chunks \o SectionChunks(sections[k + 1])
    /\ k' = k + 1
    /\ UNCHANGED <<fileVars, otherVars>>
    /\ UNCHANGED <<content, overlap_tokens, max_length, metadata, pc, words, i, starts,
                   sections>>

\* line 68: return chunks
ExtractReturn ==
    /\ pc = "for"
    /\ k = Len(sections)
    /\ pc' = "done"
    /\ UNCHANGED <<fileVars, otherVars>>
    /\ UNCHANGED <<content, overlap_tokens, max_length, metadata, words, i, starts,
                   sections, k, chunks>>

QaNext == ExtractQaPairs \/ ProcessSection \/ ExtractReturn

SpecQa == QaInit /\ [][QaNext]_vars

(***************************************************************************)
(* chunk_by_fixed_length                                                   *)
(***************************************************************************)
\* the chunk dictionary built at lines 106-111
FixedChunk(ws, from, end, m) ==
    [text |-> Join(PySlice(ws, from, end), <<SP>>),
     metadata |-> MetadataOrEmpty(m),
     chunk_type |-> "fixed_length"]

\* mutants of Advance: the overlap ignored, the overlap added
Advance_NoOverlap(from, ml, ov) == from + ml
Advance_PlusOverlap(from, ml, ov) == from + (ml + ov)

\* i += max_length - self.overlap_tokens
Advance(from, ml, ov) == from + (ml - ov)

\* the words of the input texts of the fixed-length chunker
WordAt(j) == IF j % 3 = 0 THEN <<"a">> ELSE IF j % 3 = 1 THEN <<"b", "c">> ELSE <<"d">>
SepAt(lay, j) ==
    IF lay = 1 THEN <<SP>>
    ELSE IF j % 2 = 0 THEN <<NL>> ELSE <<SP, SP>>
RECURSIVE TextBody(_, _, _)
TextBody(n, lay, j) ==
    IF j > n THEN <<>>
    ELSE IF j = n THEN WordAt(j)
    ELSE WordAt(j) \o SepAt(lay, j) \o TextBody(n, lay, j + 1)
MkText(n, lay) ==
    IF lay = 1 THEN TextBody(n, lay, 1)
    ELSE <<SP>> \o TextBody(n, lay, 1) \o <<NL>>

FixedInit ==
    /\ \E n \in 0..MaxWords, lay \in 1..2 : content = MkText(n, lay)
    /\ max_length \in 1..MaxLength
    /\ overlap_tokens \in (-2)..(max_length + 1)
    /\ metadata \in {None, [source |-> "FAQ.md"]}
    /\ pc = "call"
    /\ words = <<>>
    /\ i = 0
    /\ starts = <<>>
    /\ sections = <<>>
    /\ k = 0
    /\ chunks = <<>>
    /\ NoFile
    /\ OtherIdle

\* lines 97-100: words = text.split(); chunks = []; i = 0
ChunkByFixedLength ==
    /\ pc = "call"
    /\ words' = Split(content)
    /\ chunks' = <<>>
    /\ i' = 0
    /\ starts' = <<>>
    /\ pc' = "while"
    /\ UNCHANGED <<fileVars, otherVars>>
    /\ UNCHANGED <<content, overlap_tokens, max_length, metadata, sections, k>>

\* lines 101-117: one iteration of the while loop (the model stops following
\* a loop once it has appended MaxWords + 1 chunks)
FixedLoop ==
    /\ pc = "while"
    /\ i < Len(words)
    /\ Len(chunks) <= MaxWords
    /\ LET end == Min(i + max_length, Len(words))
           nxt == Advance(i, max_length, overlap_tokens)
       IN  /\ chunks' = Append(chunks, FixedChunk(words, i, end, metadata))
           /\ starts' = Append(starts, i)
           /\ i' = nxt
           /\ pc' = IF nxt >= Len(words) THEN "done" ELSE "while"
    /\ UNCHANGED <<fileVars, otherVars>>
    /\ UNCHANGED <<content, overlap_tokens, max_length, metadata, words, sections, k>>

\* line 101 false: the loop is left and chunks is returned (line 119)
FixedReturn ==
    /\ pc = "while"
    /\ ~(i < Len(words))
    /\ pc' = "done"
    /\ UNCHANGED <<fileVars, otherVars>>
    /\ UNCHANGED <<content, overlap_tokens, max_length, metadata, words, i, starts,
                   sections, k, chunks>>

FixedNext == ChunkByFixedLength \/ FixedLoop \/ FixedReturn

SpecFixed == FixedInit /\ [][FixedNext]_vars

(***************************************************************************)
(* _clean_markdown                                                         *)
(***************************************************************************)
CommentOpen == <<"<", "!", "-", "-">>
CommentClose == <<"-", "-", ">">>
FrontMatterOpen == <<"-", "-", "-", NL>>
DashLine == <<NL, "-", "-", "-", NL>>

\* the first position at or after from where pat occurs in s, 0 when none
FirstAt(s, from, pat) ==
    LET at == {q \in from..Len(s) : HasAt(s, q, pat)}
    IN  IF at = {} THEN 0 ELSE CHOOSE q \in at : \A r \in at : q <= r

\* mutant of RemoveComments: without re.DOTALL a comment ends on its line
RECURSIVE RemoveCommentsFrom_SingleLine(_, _)
RemoveCommentsFrom_SingleLine(s, p) ==
    IF p > Len(s) THEN <<>>
    ELSE LET e == FirstAt(s, p + 4, CommentClose)
         IN  IF HasAt(s, p, CommentOpen) /\ e > 0 /\ \A r \in p..e : s[r] # NL
             THEN RemoveCommentsFrom_SingleLine(s, e + 3)
             ELSE <<s[p]>> \o RemoveCommentsFrom_SingleLine(s, p + 1)
RemoveComments_SingleLine(s) == RemoveCommentsFrom_SingleLine(s, 1)

\* re.sub(r'<!--.*?-->', '', content, flags=re.DOTALL): each leftmost <!--
\* is removed up to the first --> after it
RECURSIVE RemoveCommentsFrom(_, _)
RemoveCommentsFrom(s, p) ==
    IF p > Len(s) THEN <<>>
    ELSE IF HasAt(s, p, CommentOpen) /\ FirstAt(s, p + 4, CommentClose) > 0
         THEN RemoveCommentsFrom(s, FirstAt(s, p + 4, CommentClose) + 3)
         ELSE <<s[p]>> \o RemoveCommentsFrom(s, p + 1)
RemoveComments(s) == RemoveCommentsFrom(s, 1)

\* re.sub(r'^---\n[\s\S]*?\n---\n', '', content): ^ is the start of the text,
\* the lazy group ends before the first \n---\n after the opening ---\n
RemoveFrontMatter(s) ==
    IF HasAt(s, 1, FrontMatterOpen) /\ FirstAt(s, 5, DashLine) > 0
    THEN SubSeq(s, FirstAt(s, 5, DashLine) + 5, Len(s))
    ELSE s

\* lines 174-176: footer_pattern = r'\n---\n[\s\S]*$' removed when found
RemoveFooter(s) ==
    IF FirstAt(s, 1, DashLine) > 0
    THEN SubSeq(s, 1, FirstAt(s, 1, DashLine) - 1)
    ELSE s

\* _clean_markdown(content)
CleanMarkdown(s) == RemoveFooter(RemoveFrontMatter(RemoveComments(s)))

(***************************************************************************)
(* process_markdown_file                                                   *)
(***************************************************************************)
\* the files: up to MaxCleanFrags of these pieces
CleanFrags ==
    { <<"-", "-", "-", NL>>,
      <<"a", NL, "-", "-", "-", NL>>,
      <<"-", "-", "-">>,
      <<"b">>,
      <<"<", "!", "-", "-", "c", NL>>,
      <<"-", "-", ">">>,
      <<NL>>,
      <<"#", "#", " ", "T", NL>> }

RECURSIVE CleanDocs(_)
CleanDocs(n) ==
    IF n = 0 THEN {<<>>}
    ELSE CleanDocs(n - 1) \cup {d \o f : d \in CleanDocs(n - 1), f \in CleanFrags}

FilePaths == {"docs/FAQ.md", "docs/guide.md"}

\* Path(file_path).name
PathName(path) ==
    CASE path = "docs/FAQ.md" -> "FAQ.md"
      [] path = "docs/guide.md" -> "guide.md"
      [] path = "docs/notes.md" -> "notes.md"
      [] OTHER -> path

Strategies == {"qa_pair", "paragraph", "fixed_length"}

ProcessInit ==
    /\ file_text \in CleanDocs(MaxCleanFrags)
    /\ file_path \in FilePaths
    /\ chunking_strategy \in Strategies \cup {"semantic"}
    /\ \/ chunking_strategy = "fixed_length"
          /\ max_length \in 1..2
          /\ overlap_tokens \in 0..(max_length - 1)
       \/ chunking_strategy # "fixed_length"
          /\ max_length = 500
          /\ overlap_tokens = 50
    /\ content = <<>>
    /\ metadata = None
    /\ pc = "open"
    /\ words = <<>>
    /\ i = 0
    /\ starts = <<>>
    /\ sections = <<>>
    /\ k = 0
    /\ chunks = <<>>
    /\ error = NoError
    /\ OtherIdle

\* lines 143-144: content = f.read()
ReadFile ==
    /\ pc = "open"
    /\ content' = file_text
    /\ pc' = "clean"
    /\ UNCHANGED <<fileVars, otherVars>>
    /\ UNCHANGED <<overlap_tokens, max_length, metadata, words, i, starts,
                   sections, k, chunks>>

\* lines 147-149: content = self._clean_markdown(content); chunks = []
CleanContent ==
    /\ pc = "clean"
    /\ content' = CleanMarkdown(content)
    /\ chunks' = <<>>
    /\ pc' = "dispatch"
    /\ UNCHANGED <<fileVars, otherVars>>
    /\ UNCHANGED <<overlap_tokens, max_length, metadata, words, i, starts,
                   sections, k>>

\* mutant of SourceMetadata: a type entry added
SourceMetadata_WithType(path) == [source |-> PathName(path), type |-> "document"]

\* the metadata lines 156 and 159 pass to the chunker
SourceMetadata(path) == [source |-> PathName(path)]

\* lines 151-159: the call of the chunker of the strategy, with its arguments
Dispatch ==
    /\ pc = "dispatch"
    /\ chunking_strategy \in Strategies
    /\ metadata' = IF chunking_strategy = "qa_pair" THEN None
                   ELSE SourceMetadata(file_path)
    /\ pc' = "call"
    /\ UNCHANGED <<fileVars, otherVars>>
    /\ UNCHANGED <<content, overlap_tokens, max_length, words, i, starts,
                   sections, k, chunks>>

\* mutant of UnsupportedStrategy: the message without the name
UnsupportedStrategy_NoName(name) ==
    [type |-> "ValueError", message |-> <<"Unsupported chunking strategy: ", "">>]

\* the exception of line 161
UnsupportedStrategy(name) ==
    [type |-> "ValueError", message |-> <<"Unsupported chunking strategy: ", name>>]

\* lines 160-161: raise ValueError(...)
RaiseUnsupported ==
    /\ pc = "dispatch"
    /\ chunking_strategy \notin Strategies
    /\ error' = UnsupportedStrategy(chunking_strategy)
    /\ pc' = "raised"
    /\ UNCHANGED <<file_path, file_text, chunking_strategy, otherVars>>
    /\ UNCHANGED <<content, overlap_tokens, max_length, metadata, words, i, starts,
                   sections, k, chunks>>

ProcessNext ==
    \/ ReadFile
    \/ CleanContent
    \/ Dispatch
    \/ RaiseUnsupported
    \/ (chunking_strategy = "qa_pair" /\ ExtractQaPairs)
    \/ ProcessSection
    \/ ExtractReturn
    \/ (chunking_strategy = "paragraph" /\ ChunkByParagraph)
    \/ (chunking_strategy = "fixed_length" /\ ChunkByFixedLength)
    \/ FixedLoop
    \/ FixedReturn

SpecProcess == ProcessInit /\ [][ProcessNext]_vars

(***************************************************************************)
(* Claims about chunk_by_fixed_length.                                     *)
(***************************************************************************)
\* the configurations the fixed-length claims are about
ValidConfig == max_length >= 1 /\ 0 <= overlap_tokens /\ overlap_tokens < max_length

\* the whitespace-delimited words of the input, and the words of a chunk
InputWords == Split(content)
ChunkWords(c) == Split(chunks[c].text)

\* the number of k >= 0 with k * s < n
NumWindows(n, s) == IF n = 0 THEN 0 ELSE ((n - 1) \div s) + 1

\* words[k*s .. min(k*s + max_length, n)) joined by single spaces
WindowText(w, c, s, ml) ==
    Join(SubSeq(w, c * s + 1, Min(c * s + ml, Len(w))), <<SP>>)

\* C3: with at least one word and overlap_tokens >= max_length the call is
\* rejected or stops after one iteration: it never appends a second chunk and
\* is not in its loop any more once it has appended one.
C3_InvalidOverlapStops ==
    (pc \in {"while", "done"} /\ Len(words) >= 1 /\ overlap_tokens >= max_length)
        => /\ Len(chunks) <= 1
           /\ (Len(chunks) = 1 => pc = "done")

\* C5: under a valid configuration the chunks appended so far are the windows
\* k = 0, 1, ... of the input words (text = words[k*s .. min(k*s+max_length, n))
\* joined by single spaces, type fixed_length), never more than the number of
\* k with k*s < n, and exactly that many when the call has returned; for 25
\* words, max_length 10 and overlap 3 the windows start at 0, 7, 14, 21 and the
\* last has at most 10 words.
C5_FixedLengthWindows ==
    (ValidConfig /\ pc \in {"while", "done"}) =>
        LET w == InputWords
            s == max_length - overlap_tokens
            n == Len(w)
        IN  /\ Len(chunks) <= NumWindows(n, s)
            /\ \A c \in 1..Len(chunks) :
                   /\ chunks[c].chunk_type = "fixed_length"
                   /\ chunks[c].text = WindowText(w, c - 1, s, max_length)
            /\ (pc = "done" => Len(chunks) = NumWindows(n, s))
            /\ (pc = "while" /\ n > 0 => Len(chunks) < NumWindows(n, s))
            /\ (pc = "done" /\ n = 25 /\ max_length = 10 /\ overlap_tokens = 3)
                   => /\ starts = <<0, 7, 14, 21>>
                      /\ Len(ChunkWords(Len(chunks))) <= 10

C5_Witness ==
    /\ pc = "done"
    /\ Len(words) = 25 /\ max_length = 10 /\ overlap_tokens = 3
    /\ Len(chunks) = 4

\* the word positions (0-based) a chunk holds: from the index it was cut at
Covers(c, j) == starts[c] <= j /\ j < starts[c] + Len(ChunkWords(c))

\* C6: under a valid configuration every word of the text is in at least one
\* returned chunk (the chunk cut at offset o holds the words o, o+1, ... of
\* the text), and each chunk starts strictly after the one before it.
C6_EveryWordCoveredInOrder ==
    (ValidConfig /\ pc \in {"while", "done"}) =>
        /\ \A c \in 1..Len(chunks) :
               LET cw == ChunkWords(c)
               IN  /\ starts[c] >= 0
                   /\ starts[c] + Len(cw) <= Len(words)
                   /\ cw = SubSeq(words, starts[c] + 1, starts[c] + Len(cw))
        /\ \A c \in 2..Len(chunks) : starts[c] > starts[c - 1]
        /\ (pc = "done" =>
               \A j \in 0..(Len(words) - 1) : \E c \in 1..Len(chunks) : Covers(c, j))

C6_Witness ==
    /\ pc = "done" /\ ValidConfig
    /\ overlap_tokens >= 1
    /\ Len(chunks) >= 3
    /\ Len(words) > max_length

\* the last / first m words of a word list (all of it when it is shorter)
LastWords(w, m) == SubSeq(w, Max(Len(w) - m, 0) + 1, Len(w))
FirstWords(w, m) == SubSeq(w, 1, Min(m, Len(w)))

\* C7: under a valid configuration every pair of consecutive returned chunks
\* whose second chunk is not the final one shares exactly overlap_tokens
\* words: the last overlap_tokens words of the earlier chunk are the first
\* overlap_tokens words of the later one.
C7_ConsecutiveShareOverlap ==
    (ValidConfig /\ pc = "done") =>
        \A c \in 1..(Len(chunks) - 2) :
            /\ starts[c] + Len(ChunkWords(c)) - starts[c + 1] = overlap_tokens
            /\ Len(ChunkWords(c)) >= overlap_tokens
            /\ Len(ChunkWords(c + 1)) >= overlap_tokens
            /\ LastWords(ChunkWords(c), overlap_tokens)
                  = FirstWords(ChunkWords(c + 1), overlap_tokens)

(***************************************************************************)
(* Claims about chunk_by_paragraph.                                        *)
(***************************************************************************)
\* the end of the maximal run of whitespace that starts at p
RECURSIVE RunEnd(_, _)
RunEnd(s, p) == IF p < Len(s) /\ IsSpace(s[p + 1]) THEN RunEnd(s, p + 1) ELSE p

NewlinesIn(s, a, b) == Cardinality({q \in a..b : s[q] = NL})

Flush(cur) == IF Strip(cur) = <<>> THEN <<>> ELSE <<Strip(cur)>>

\* the trimmed, non-empty pieces of s between the runs of whitespace that
\* hold a blank line (two newlines with only whitespace between them)
RECURSIVE BlankLinePieces(_, _, _)
BlankLinePieces(s, p, cur) ==
    IF p > Len(s) THEN Flush(cur)
    ELSE IF IsSpace(s[p])
         THEN LET e == RunEnd(s, p)
              IN  IF NewlinesIn(s, p, e) >= 2
                  THEN Flush(cur) \o BlankLinePieces(s, e + 1, <<>>)
                  ELSE BlankLinePieces(s, e + 1, cur \o SubSeq(s, p, e))
         ELSE BlankLinePieces(s, p + 1, Append(cur, s[p]))

\* C8: chunk_by_paragraph returns one chunk of type paragraph per non-empty
\* piece between the whitespace runs that hold a blank line, in input order,
\* with the trimmed piece as text and the caller's metadata; the text
\* A, blank line, B, two blank lines, C gives exactly the chunks A, B, C.
C8_ParagraphChunks ==
    pc = "done" =>
        LET pieces == BlankLinePieces(content, 1, <<>>)
        IN  /\ Len(chunks) = Len(pieces)
            /\ \A c \in 1..Len(chunks) :
                   /\ chunks[c].text = pieces[c]
                   /\ chunks[c].chunk_type = "paragraph"
                   /\ chunks[c].metadata = MetadataOrEmpty(metadata)
            /\ (content = ParaExample =>
                   /\ Len(chunks) = 3
                   /\ chunks[1].text = <<"A">>
                   /\ chunks[2].text = <<"B">>
                   /\ chunks[3].text = <<"C">>)

C8_Witness ==
    /\ pc = "done"
    /\ content = ParaExample
    /\ Len(chunks) = 3
    /\ metadata = [source |-> "FAQ.md"]

(***************************************************************************)
(* Claims about _split_by_sections and extract_qa_pairs.                   *)
(***************************************************************************)
\* the lines of a text (without their newlines)
RECURSIVE LinesFrom(_, _, _)
LinesFrom(s, p, cur) ==
    IF p > Len(s) THEN <<cur>>
    ELSE IF s[p] = NL THEN <<cur>> \o LinesFrom(s, p + 1, <<>>)
    ELSE LinesFrom(s, p + 1, Append(cur, s[p]))
Lines(s) == LinesFrom(s, 1, <<>>)

\* a line that begins with exactly two, exactly four # characters
IsH2Line(l) == HasAt(l, 1, H2) /\ ~HasAt(l, 1, <<"#", "#", "#">>)
IsH4Line(l) == HasAt(l, 1, H4) /\ ~HasAt(l, 1, <<"#", "#", "#", "#", "#">>)
HeadingText(l, n) == Strip(SubSeq(l, n + 1, Len(l)))

\* a heading text that begins with Q<digits>:
HasQPrefix(t) ==
    \E d \in 2..(Len(t) - 1) :
        /\ t[1] = "Q"
        /\ \A r \in 2..d : IsDigit(t[r])
        /\ t[d + 1] = ":"
IsQHeading(l) == IsH4Line(l) /\ HasQPrefix(HeadingText(l, 4))

\* the heading text with Q<digits>: and the whitespace after it removed
WithoutQPrefix(t) ==
    IF HasQPrefix(t)
    THEN LET d == CHOOSE d \in 2..(Len(t) - 1) :
                      (\A r \in 2..d : IsDigit(t[r])) /\ t[d + 1] = ":"
         IN  LStrip(SubSeq(t, d + 2, Len(t)))
    ELSE t

\* the line numbers of the ## heading lines of a document, and for the
\* heading at line h the lines of its section: up to the next ## heading
H2LineNumbers(ls) == {h \in 1..Len(ls) : IsH2Line(ls[h])}
SectionLastLine(ls, h) ==
    LET later == {g \in H2LineNumbers(ls) : g > h}
    IN  IF later = {} THEN Len(ls)
        ELSE (CHOOSE g \in later : \A r \in later : g <= r) - 1
SectionBody(ls, h) == SubSeq(ls, h + 1, SectionLastLine(ls, h))

\* the #### headings of a section body that are questions: those with a
\* Q<digits>: prefix when there is one, all of them otherwise
QuestionLines(body) ==
    LET qs == {h \in 1..Len(body) : IsQHeading(body[h])}
    IN  IF qs # {} THEN qs ELSE {h \in 1..Len(body) : IsH4Line(body[h])}

\* the answer of the heading at line h: the text up to the next #### heading
\* or the end of the section, trimmed
AnswerOf(body, h) ==
    LET later == {g \in (h + 1)..Len(body) : IsH4Line(body[g])}
        last == IF later = {} THEN Len(body)
                ELSE (CHOOSE g \in later : \A r \in later : g <= r) - 1
    IN  Strip(Join(SubSeq(body, h + 1, last), <<NL>>))

\* a section of ## title, #### headings and answer text
WellFormedSection(ls, h) ==
    LET body == SectionBody(ls, h)
    IN  /\ Len(ls[h]) >= 4 /\ ls[h][3] = SP /\ HeadingText(ls[h], 2) # <<>>
        /\ ~Contains(HeadingText(ls[h], 2), <<"#">>)
        /\ ~Contains(HeadingText(ls[h], 2), TableOfContents)
        /\ body # <<>> /\ IsH4Line(body[1])
        /\ \A g \in 1..Len(body) :
               \/ ~Contains(body[g], <<"#">>)
               \/ /\ IsH4Line(body[g])
                  /\ body[g][5] = SP
                  /\ WithoutQPrefix(HeadingText(body[g], 4)) # <<>>
                  /\ ~Contains(HeadingText(body[g], 4), <<"#">>)
                  /\ AnswerOf(body, g) # <<>>

WellFormedDocument(ls) ==
    /\ IsH2Line(ls[1])
    /\ \A h \in H2LineNumbers(ls) : WellFormedSection(ls, h)

\* the Q&A pairs of a well-formed document, in document order
RECURSIVE ExpectedQa(_, _, _)
ExpectedQa(ls, title, g) ==
    IF g > Len(ls) THEN <<>>
    ELSE IF IsH2Line(ls[g]) THEN ExpectedQa(ls, HeadingText(ls[g], 2), g + 1)
    ELSE LET h == CHOOSE h \in H2LineNumbers(ls) :
                      h < g /\ g <= SectionLastLine(ls, h)
             body == SectionBody(ls, h)
         IN  IF (g - h) \in QuestionLines(body)
             THEN <<[question |-> WithoutQPrefix(HeadingText(ls[g], 4)),
                     answer |-> AnswerOf(body, g - h),
                     section |-> title]>> \o ExpectedQa(ls, title, g + 1)
             ELSE ExpectedQa(ls, title, g + 1)

ReturnsExpectedQa(ls) ==
    LET expected == ExpectedQa(ls, <<>>, 1)
    IN  /\ Len(chunks) = Len(expected)
        /\ \A c \in 1..Len(chunks) :
               /\ chunks[c].chunk_type = "qa_pair"
               /\ chunks[c].question = expected[c].question
               /\ chunks[c].answer = expected[c].answer
               /\ chunks[c].section = expected[c].section

\* C1: for a document of ## title sections that each hold #### Q<digits>:
\* headings followed by answer text, extract_qa_pairs returns one qa_pair
\* chunk per #### heading, in document order, with the heading text without
\* its Q<digits>: prefix as question, the trimmed text up to the next ####
\* heading or the end of the section as answer, and the title of the
\* enclosing ## heading as section.
C1_OneQaChunkPerHeading ==
    LET ls == Lines(content)
    IN  (/\ pc = "done"
         /\ WellFormedDocument(ls)
         /\ \A g \in 1..Len(ls) : IsH4Line(ls[g]) => IsQHeading(ls[g]))
            => ReturnsExpectedQa(ls)

\* C10: for a document of well-formed sections of which one holds ####
\* headings without any Q<digits>: prefix, extract_qa_pairs returns for that
\* section one qa_pair chunk per #### heading, in order, with the trimmed
\* heading text as question; in a section where a heading has the prefix only
\* the headings with the prefix are questions.
C10_FallbackPatternPerHeading ==
    LET ls == Lines(content)
    IN  (/\ pc = "done"
         /\ WellFormedDocument(ls)
         /\ \E h \in H2LineNumbers(ls) :
                \A g \in 1..Len(SectionBody(ls, h)) : ~IsQHeading(SectionBody(ls, h)[g]))
            => ReturnsExpectedQa(ls)

\* position p is the first of a line
AtLineStart(s, p) == p = 1 \/ s[p - 1] = NL

\* the last position before the next line after position p that begins with
\* exactly two #, the end of the text when there is none
BeforeNextH2Line(s, p) ==
    LET nxt == {q \in (p + 1)..Len(s) :
                   /\ AtLineStart(s, q)
                   /\ HasAt(s, q, H2) /\ ~HasAt(s, q, <<"#", "#", "#">>)}
    IN  IF nxt = {} THEN Len(s) ELSE (CHOOSE q \in nxt : \A r \in nxt : q <= r) - 1

KeptMatch(m) == ~Contains(Strip(m.g1), TableOfContents)

\* C2: every section _split_by_sections returns starts at a line that begins
\* with exactly two # characters, and its content is the text after that
\* heading line up to the next such line or the end of the document, trimmed.
C2_SectionsStartAtH2Lines ==
    pc \in {"for", "done"} =>
        LET ms == SelectSeq(SectionMatches(content, 1), KeptMatch)
        IN  /\ Len(sections) = Len(ms)
            /\ \A j \in 1..Len(ms) :
                   /\ AtLineStart(content, ms[j].start)
                   /\ ~HasAt(content, ms[j].start, <<"#", "#", "#">>)
                   /\ sections[j].content =
                          Strip(SubSeq(content, FirstNewline(content, ms[j].start) + 1,
                                       BeforeNextH2Line(content, ms[j].start)))

\* C4: the sections are a contiguous partition of the document: every
\* character of the document that is not whitespace lies in the heading or
\* the content of exactly one section found (the Table of Contents section
\* being the only one not returned), and the sections follow each other in
\* document order.
C4_SectionsPartitionDocument ==
    pc \in {"for", "done"} =>
        LET ms == SectionMatches(content, 1)
        IN  /\ \A p \in 1..Len(content) :
                   ~IsSpace(content[p]) =>
                       Cardinality({j \in 1..Len(ms) :
                                       ms[j].start <= p /\ p <= ms[j].end}) = 1
            /\ Len(sections) = Len(SelectSeq(ms, KeptMatch))

\* a line of the text that begins with ####
HasH4Heading(s) == \E p \in 1..Len(s) : AtLineStart(s, p) /\ HasAt(s, p, H4)

\* the paragraph chunks the fallback owes a section
RECURSIVE ExpectedParagraphs(_, _)
ExpectedParagraphs(pieces, title) ==
    IF pieces = <<>> THEN <<>>
    ELSE <<[text |-> Head(pieces),
            metadata |-> [source |-> "FAQ.md", section |-> title, type |-> "paragraph"],
            chunk_type |-> "paragraph"]>> \o ExpectedParagraphs(Tail(pieces), title)

RECURSIVE ExpectedFallback(_, _)
ExpectedFallback(secs, n) ==
    IF n = 0 THEN <<>>
    ELSE ExpectedFallback(secs, n - 1)
             \o ExpectedParagraphs(BlankLinePieces(secs[n].content, 1, <<>>), secs[n].title)

\* C9: while the sections processed so far hold no #### heading, the chunks
\* are their paragraph chunks only: for each such section, in order, one
\* chunk of type paragraph per blank-line separated piece of its content,
\* with metadata type paragraph, source FAQ.md (the source of the qa_pair
\* chunks) and the section title; none is a qa_pair chunk.
C9_ParagraphFallback ==
    (pc \in {"for", "done"} /\ \A j \in 1..k : ~HasH4Heading(sections[j].content))
        => chunks = ExpectedFallback(sections, k)

C9_Witness ==
    /\ pc = "done"
    /\ k = 2
    /\ ~HasH4Heading(sections[1].content)
    /\ Len(chunks) >= 3
    /\ chunks[1].metadata.type = "paragraph"
    /\ chunks[1].metadata.section = sections[1].title

(***************************************************************************)
(* Claims about the Table of Contents section.                             *)
(***************************************************************************)
\* the text a chunk holds
ChunkText(c) == IF c.chunk_type = "qa_pair" THEN c.answer ELSE c.text

IsTocLine(l) == IsH2Line(l) /\ Contains(HeadingText(l, 2), TableOfContents)

\* C11: for a document with a ## heading whose title contains Table of
\* Contents and other ## headings, every chunk extract_qa_pairs returns has
\* as section the title of a ## heading that is not the Table of Contents
\* one, and its text lies inside the lines of that section.
C11_NoTableOfContentsChunks ==
    LET ls == Lines(content)
    IN  (/\ pc = "done"
         /\ \E h \in H2LineNumbers(ls) : IsTocLine(ls[h])
         /\ \E h \in H2LineNumbers(ls) : ~IsTocLine(ls[h]))
            => \A c \in 1..Len(chunks) :
                   \E h \in H2LineNumbers(ls) :
                       /\ ~IsTocLine(ls[h])
                       /\ chunks[c].metadata.section = HeadingText(ls[h], 2)
                       /\ Contains(Join(SectionBody(ls, h), <<NL>>), ChunkText(chunks[c]))

(***************************************************************************)
(* Claims about _clean_markdown.                                           *)
(***************************************************************************)
IsDashLine(l) == l = <<"-", "-", "-">>

\* the text before the first line that is exactly ---, with or without the
\* newline that ends the line before it; the text itself when there is none
BeforeFirstDashLine(s) ==
    LET ls == Lines(s)
        hs == {h \in 1..Len(ls) : IsDashLine(ls[h])}
    IN  IF hs = {} THEN {s}
        ELSE LET h == CHOOSE h \in hs : \A r \in hs : h <= r
                 before == Join(SubSeq(ls, 1, h - 1), <<NL>>)
             IN  IF h = 1 THEN {<<>>} ELSE {before, before \o <<NL>>}

\* C12: after the removal of comments and front matter, _clean_markdown cuts
\* the text at the first line that is exactly ---, wherever the line is
\* (first line, last line without newline): it returns the text before that
\* line, and the text unchanged when there is no such line.
C12_FooterCutAtFirstDashLine ==
    pc \notin {"open", "clean"} =>
        content \in BeforeFirstDashLine(RemoveFrontMatter(RemoveComments(file_text)))

\* the text with a front-matter block at its very start removed: a first line
\* ---, arbitrary lines, and the first following line ---; the text itself
\* when it does not begin with such a block
WithoutLeadingFrontMatter(s) ==
    LET ls == Lines(s)
        hs == {h \in 2..Len(ls) : IsDashLine(ls[h])}
    IN  IF IsDashLine(ls[1]) /\ hs # {}
        THEN LET h == CHOOSE h \in hs : \A r \in hs : h <= r
             IN  Join(SubSeq(ls, h + 1, Len(ls)), <<NL>>)
        ELSE s

\* C13: _clean_markdown removes a front-matter block (a --- line, arbitrary
\* content, a closing --- line) exactly when the block begins at the first
\* character of the text, and keeps the body text that follows it: its result
\* is the footer step applied to the text without its leading block.
C13_FrontMatterOnlyAtStart ==
    pc \notin {"open", "clean"} =>
        content = RemoveFooter(WithoutLeadingFrontMatter(RemoveComments(file_text)))

\* the positions of s inside an HTML comment block: the blocks are found
\* from the left, each from a <!-- to the end of the first --> after it
RECURSIVE CommentPositions(_, _)
CommentPositions(s, from) ==
    LET opens == {o \in from..Len(s) :
                     HasAt(s, o, CommentOpen)
                         /\ \E e \in (o + 4)..Len(s) : HasAt(s, e, CommentClose)}
    IN  IF opens = {} THEN {}
        ELSE LET o == CHOOSE o \in opens : \A r \in opens : o <= r
                 e == CHOOSE e \in (o + 4)..Len(s) :
                          /\ HasAt(s, e, CommentClose)
                          /\ \A r \in (o + 4)..(e - 1) : ~HasAt(s, r, CommentClose)
             IN  (o..(e + 2)) \cup CommentPositions(s, e + 3)

\* the characters of s at the positions from p on that are not in ps
RECURSIVE TextOutside(_, _, _)
TextOutside(s, ps, p) ==
    IF p > Len(s) THEN <<>>
    ELSE (IF p \in ps THEN <<>> ELSE <<s[p]>>) \o TextOutside(s, ps, p + 1)

\* a text that is one HTML comment block from its first to its last character
IsOneComment(s) == Len(s) >= 7 /\ CommentPositions(s, 1) = 1..Len(s)

\* C14: _clean_markdown removes every HTML comment block <!-- ... -->, also
\* one that spans several lines, and keeps the text outside the blocks (which
\* then goes through the front matter and footer steps); a file that is one
\* HTML comment cleans to the empty string and yields no chunk under each
\* strategy.
C14_CommentsRemoved ==
    pc \notin {"open", "clean"} =>
        /\ content = RemoveFooter(RemoveFrontMatter(
                         TextOutside(file_text, CommentPositions(file_text, 1), 1)))
        /\ IsOneComment(file_text) => content = <<>> /\ chunks = <<>>

C14_Witness ==
    /\ pc = "done"
    /\ chunking_strategy = "fixed_length"
    /\ IsOneComment(file_text)
    /\ Contains(file_text, <<NL>>)
    /\ content = <<>>
    /\ chunks = <<>>

(***************************************************************************)
(* Claims about process_markdown_file.                                     *)
(***************************************************************************)
\* a step of a call with a strategy name that is not one of the three: no
\* chunk, overlap_tokens kept, and at the dispatch the ValueError whose
\* message ends with the name
UnsupportedStep ==
    chunking_strategy \notin {"qa_pair", "paragraph", "fixed_length"} =>
        /\ chunks' = <<>>
        /\ overlap_tokens' = overlap_tokens
        /\ pc' # "done"
        /\ pc = "dispatch" =>
               /\ pc' = "raised"
               /\ error'.type = "ValueError"
               /\ error'.message[Len(error'.message)] = chunking_strategy

\* C15: process_markdown_file called with a strategy name other than qa_pair,
\* paragraph or fixed_length raises the unsupported-strategy error whose
\* message contains the name, returns no chunks and leaves overlap_tokens
\* unchanged.
C15_UnsupportedStrategyRaises == [][UnsupportedStep]_vars

C15_Witness ==
    /\ pc = "raised"
    /\ chunking_strategy = "semantic"
    /\ content # <<>>
    /\ error = [type |-> "ValueError",
                message |-> <<"Unsupported chunking strategy: ", "semantic">>]
    /\ chunks = <<>>

\* C16: every chunk process_markdown_file returns, under each strategy, has a
\* metadata entry source that identifies the file it was called with (its
\* path or its name), so that chunks of different files differ in source.
C16_SourceIdentifiesFile ==
    pc = "done" =>
        \A c \in 1..Len(chunks) :
            /\ "source" \in DOMAIN chunks[c].metadata
            /\ chunks[c].metadata.source \in {file_path, PathName(file_path)}

\* C17 as stated: every chunk process_markdown_file returns, under each
\* strategy, has a metadata entry type equal to its chunk_type.
C17_TypeMirrorsChunkType ==
    pc = "done" =>
        \A c \in 1..Len(chunks) :
            /\ "type" \in DOMAIN chunks[c].metadata
            /\ chunks[c].metadata.type = chunks[c].chunk_type

\* C17, amended: every chunk returned under the qa_pair strategy has a
\* metadata entry type equal to its chunk_type; the chunks returned under the
\* paragraph and fixed_length strategies have the strategy as chunk_type and
\* a metadata of the entry source alone, without type.
C17_TypeOnlyUnderQaPair ==
    pc = "done" =>
        \A c \in 1..Len(chunks) :
            IF chunking_strategy = "qa_pair"
            THEN /\ "type" \in DOMAIN chunks[c].metadata
                 /\ chunks[c].metadata.type = chunks[c].chunk_type
            ELSE /\ chunks[c].chunk_type = chunking_strategy
                 /\ DOMAIN chunks[c].metadata = {"source"}

C17_Witness ==
    /\ pc = "done"
    /\ chunking_strategy = "qa_pair"
    /\ chunks # <<>>
    /\ chunks[1].metadata.type = "paragraph"
    /\ chunks[1].chunk_type = "paragraph"

\* a chunk whose content is not empty after trimming
NonEmptyChunk(c) ==
    IF c.chunk_type = "qa_pair"
    THEN Strip(c.question) # <<>> /\ Strip(c.answer) # <<>>
    ELSE Strip(c.text) # <<>>

\* C18: under each strategy (fixed_length with max_length >= 1 and
\* 0 <= overlap_tokens < max_length) every chunk produced has content that is
\* not empty after trimming: the text of a paragraph or fixed_length chunk,
\* the question and the answer of a qa_pair chunk.
C18_ChunksNonEmpty ==
    (chunking_strategy = "fixed_length" => max_length >= 1 /\ 0 <= overlap_tokens /\ overlap_tokens < max_length)
        => \A c \in 1..Len(chunks) : NonEmptyChunk(chunks[c])

C18_Witness ==
    /\ pc = "done"
    /\ chunking_strategy = "paragraph"
    /\ Len(chunks) >= 1
    /\ Len(ParaSplit(content)) > Len(chunks)
    /\ \A c \in 1..Len(chunks) : NonEmptyChunk(chunks[c])

(***************************************************************************)
(* Claims about the order and the degenerate inputs of extract_qa_pairs.   *)
(***************************************************************************)
\* the texts of items occur in s from position from on, one after the
\* other without overlap, in the order of items
RECURSIVE OccurInOrder(_, _, _)
OccurInOrder(s, from, items) ==
    IF items = <<>> THEN TRUE
    ELSE LET q == FirstAt(s, from, Head(items))
         IN  q > 0 /\ OccurInOrder(s, q + Len(Head(items)), Tail(items))

\* the section titles and chunk texts in the order of the chunks: the title
\* where the section changes, then the text of each chunk
RECURSIVE TitlesAndTexts(_, _)
TitlesAndTexts(cs, n) ==
    IF n = 0 THEN <<>>
    ELSE TitlesAndTexts(cs, n - 1)
             \o (IF n = 1 \/ cs[n].metadata.section # cs[n - 1].metadata.section
                 THEN <<cs[n].metadata.section>> ELSE <<>>)
             \o <<ChunkText(cs[n])>>

\* C19: the chunks of extract_qa_pairs keep the order of the document: the
\* section titles and the chunk texts, read in the order of the chunks,
\* occur one after the other in the document, so an earlier chunk was taken
\* from earlier text, the chunks of a section are adjacent, the sections
\* follow the heading order and the chunks of a section their order of
\* appearance.
C19_ChunksInDocumentOrder ==
    pc \in {"for", "done"} =>
        OccurInOrder(content, 1, TitlesAndTexts(chunks, Len(chunks)))

C19_Witness ==
    /\ pc = "done"
    /\ Len(chunks) >= 2
    /\ chunks[1].metadata.section = chunks[2].metadata.section
    /\ chunks[1].text # chunks[2].text
    /\ OccurInOrder(content, 1, <<chunks[1].text, chunks[2].text>>)
    /\ ~OccurInOrder(content, 1, <<chunks[2].text, chunks[1].text>>)

\* C20: extract_qa_pairs does not fail on degenerate input: a document
\* without a line that begins with exactly two # yields zero sections, and
\* the empty document yields the empty chunk sequence.
C20_DegenerateInput ==
    pc \in {"for", "done"} =>
        /\ H2LineNumbers(Lines(content)) = {} => sections = <<>>
        /\ content = <<>> => chunks = <<>>

(***************************************************************************)
(* Claims about losslessness.                                              *)
(***************************************************************************)
\* the characters of s that are not whitespace, in order
RECURSIVE NonSpace(_)
NonSpace(s) ==
    IF s = <<>> THEN <<>>
    ELSE (IF IsSpace(Head(s)) THEN <<>> ELSE <<Head(s)>>) \o NonSpace(Tail(s))

\* the texts of the first n chunks, one after the other
RECURSIVE ConcatTexts(_, _)
ConcatTexts(cs, n) ==
    IF n = 0 THEN <<>> ELSE ConcatTexts(cs, n - 1) \o cs[n].text

\* C21: the paragraph chunking is lossless: the non-whitespace characters of
\* the chunk texts, concatenated in chunk order, are the non-whitespace
\* characters of the text in order.
C21_ParagraphLossless ==
    pc = "done"
        => NonSpace(ConcatTexts(chunks, Len(chunks))) = NonSpace(content)

C21_Witness ==
    /\ pc = "done"
    /\ Len(chunks) >= 2
    /\ chunks[1].text # chunks[2].text
    /\ Len(NonSpace(content)) < Len(content) - 2
    /\ NonSpace(ConcatTexts(chunks, Len(chunks))) = NonSpace(content)

(***************************************************************************)
(* Further claims about chunk_by_fixed_length.                             *)
(***************************************************************************)
\* C26: under a valid configuration every chunk after the first holds a word
\* position the chunk before it does not hold: no chunk, the final one
\* included, lies inside the overlap with its predecessor.
C26_EveryChunkAddsAWord ==
    (ValidConfig /\ pc \in {"while", "done"}) =>
        \A c \in 2..Len(chunks) :
            \E j \in 0..(Len(words) - 1) : Covers(c, j) /\ ~Covers(c - 1, j)

\* C27: with max_length >= 1 and a negative overlap_tokens the returned
\* chunks still cover the text: every word is in at least one chunk and no
\* word between two consecutive chunks is skipped.
C27_NegativeOverlapCovers ==
    (pc = "done" /\ max_length >= 1 /\ overlap_tokens < 0) =>
        /\ \A j \in 0..(Len(words) - 1) : \E c \in 1..Len(chunks) : Covers(c, j)
        /\ \A c \in 2..Len(chunks) :
               starts[c] <= starts[c - 1] + Len(ChunkWords(c - 1))

(***************************************************************************)
(* main, batch mode (the input is a directory)                             *)
(***************************************************************************)
MaxFiles == 3

\* the paths glob("**/*.md") yields, in its order, and the texts of the files
BatchPath(j) ==
    CASE j = 1 -> "docs/FAQ.md"
      [] j = 2 -> "docs/guide.md"
      [] OTHER -> "docs/notes.md"
BatchTexts ==
    { <<>>,
      <<"b">>,
      <<"#", "#", " ", "T", NL, "a", NL, NL, "b">> }

\* a file that open() / f.read() can read, and one for which they raise
\* (no permission, bytes that are not UTF-8)
ReadableFile(j, text) == [path |-> BatchPath(j), text |-> text, readable |-> TRUE]
UnreadableFile(j) == [path |-> BatchPath(j), text |-> <<>>, readable |-> FALSE]

FileLists(n) ==
    UNION { { fs \in [1..m -> {UnreadableFile(j) : j \in 1..m}
                                \cup {ReadableFile(j, t) : j \in 1..m, t \in BatchTexts}] :
                \A j \in 1..m : fs[j].path = BatchPath(j) } : m \in 0..n }

\* lines 213-217: args parsed, processor built, all_chunks = []
BatchInit ==
    /\ input_files \in FileLists(MaxFiles)
    /\ chunking_strategy \in Strategies
    /\ \/ chunking_strategy = "fixed_length"
          /\ max_length = 2
          /\ overlap_tokens \in 0..1
       \/ chunking_strategy # "fixed_length"
          /\ max_length = 500
          /\ overlap_tokens = 50
    /\ file_no = 0
    /\ all_chunks = <<>>
    /\ extended = <<>>
    /\ saved = NotSaved
    /\ main_pc = "for"
    /\ OutsideMainIdle
    /\ file_path = ""
    /\ file_text = <<>>
    /\ content = <<>>
    /\ metadata = None
    /\ pc = ""
    /\ words = <<>>
    /\ i = 0
    /\ starts = <<>>
    /\ sections = <<>>
    /\ k = 0
    /\ chunks = <<>>
    /\ error = NoError

\* lines 219-222: the loop takes the next file and calls process_markdown_file
NextFile ==
    /\ main_pc = "for"
    /\ pc = ""
    /\ file_no < Len(input_files)
    /\ file_no' = file_no + 1
    /\ file_path' = input_files[file_no + 1].path
    /\ file_text' = input_files[file_no + 1].text
    /\ pc' = "open"
    /\ content' = <<>>
    /\ metadata' = None
    /\ words' = <<>>
    /\ i' = 0
    /\ starts' = <<>>
    /\ sections' = <<>>
    /\ k' = 0
    /\ chunks' = <<>>
    /\ UNCHANGED <<overlap_tokens, max_length, chunking_strategy, error>>
    /\ UNCHANGED <<input_files, all_chunks, extended, saved, main_pc>>
    /\ UNCHANGED outsideMain

\* the exception open() or f.read() raises for a file it cannot read
ReadError(path) == [type |-> "OSError", message |-> <<path>>]

\* lines 143-144 for a file that cannot be read: the exception leaves
\* process_markdown_file
OpenFails ==
    /\ pc = "open"
    /\ file_no >= 1
    /\ ~input_files[file_no].readable
    /\ error' = ReadError(file_path)
    /\ pc' = "raised"
    /\ UNCHANGED <<content, overlap_tokens, max_length, metadata, words, i, starts,
                   sections, k, chunks, file_path, file_text, chunking_strategy>>
    /\ UNCHANGED otherVars

\* line 227: all_chunks.extend(file_chunks)
ExtendChunks ==
    /\ main_pc = "for"
    /\ pc = "done"
    /\ all_chunks' = all_chunks \o chunks
    /\ extended' = Append(extended, file_no)
    /\ pc' = ""
    /\ UNCHANGED <<content, overlap_tokens, max_length, metadata, words, i, starts,
                   sections, k, chunks, file_path, file_text, chunking_strategy, error>>
    /\ UNCHANGED <<input_files, file_no, saved, main_pc>>
    /\ UNCHANGED outsideMain

\* lines 219-227 hold no try: the exception of process_markdown_file leaves
\* the loop and main, line 242 is not reached
MainRaises ==
    /\ main_pc = "for"
    /\ pc = "raised"
    /\ main_pc' = "raised"
    /\ UNCHANGED notBatch
    /\ UNCHANGED <<input_files, file_no, all_chunks, extended, saved>>

\* lines 241-243: save_chunks_to_json(all_chunks, args.output)
SaveChunks ==
    /\ main_pc = "for"
    /\ pc = ""
    /\ file_no = Len(input_files)
    /\ saved' = [saved |-> TRUE, chunks |-> all_chunks]
    /\ main_pc' = "exit"
    /\ UNCHANGED notBatch
    /\ UNCHANGED <<input_files, file_no, all_chunks, extended>>

BatchNext ==
    \/ NextFile
    \/ (file_no >= 1 /\ input_files[file_no].readable /\ ReadFile)
    \/ OpenFails
    \/ CleanContent
    \/ Dispatch
    \/ (chunking_strategy = "qa_pair" /\ ExtractQaPairs)
    \/ ProcessSection
    \/ ExtractReturn
    \/ (chunking_strategy = "paragraph" /\ ChunkByParagraph)
    \/ (chunking_strategy = "fixed_length" /\ ChunkByFixedLength)
    \/ FixedLoop
    \/ FixedReturn
    \/ ExtendChunks
    \/ MainRaises
    \/ SaveChunks

SpecBatch == BatchInit /\ [][BatchNext]_vars

(***************************************************************************)
(* Claims about main.                                                      *)
(***************************************************************************)
\* C22: in batch mode a failure while processing one file does not abort the
\* batch: main does not end with an exception, and when it has ended the
\* output was saved with the chunks of every file that can be read.
C22_BatchSurvivesFileFailure ==
    /\ main_pc # "raised"
    /\ main_pc = "exit" =>
           /\ saved # NotSaved
           /\ \A j \in 1..Len(input_files) :
                  input_files[j].readable => \E e \in 1..Len(extended) : extended[e] = j

(***************************************************************************)
(* lark-bot/main.py: class Server                                          *)
(***************************************************************************)
MaxRetries == 3

\* the session initialize stores, what a method returns or raises
ClientSession == [read |-> "read", write |-> "write"]
Returned(value) == [kind |-> "returned", value |-> value]
Raised(exc) == [kind |-> "raised", exc |-> exc]
NotInitialized == [type |-> "RuntimeError", message |-> "not initialized"]
\* the result, the exception of the n-th call_tool of the running execute_tool
ToolResult(n) == [result_of |-> n]
ToolError(n) == [type |-> "Exception", raised_by |-> n]

\* Server.__init__
ServerInit ==
    /\ session = None
    /\ op = ""
    /\ srv_pc = "idle"
    /\ retries = 0
    /\ attempt = 0
    /\ events = <<>>
    /\ outcome = NoOutcome
    /\ init_ok = FALSE
    /\ OutsideServerIdle

\* self.session after cleanup(): None when exit_stack.aclose() returned, left
\* as it was when aclose() raised (lines 115-119)
AfterCleanup(s, closed) == IF closed THEN None ELSE s

\* initialize(): the connection is made and the session stored, or a step of
\* it raises, cleanup() runs and the exception is raised again
Initialize ==
    /\ srv_pc = "idle"
    /\ op' = "initialize"
    /\ events' = <<>>
    /\ \/ /\ session' = ClientSession
          /\ outcome' = Returned(None)
          /\ init_ok' = TRUE
       \/ /\ \E closed \in BOOLEAN : session' = AfterCleanup(session, closed)
          /\ outcome' = Raised([type |-> "Exception", raised_by |-> "initialize"])
          /\ init_ok' = FALSE
    /\ UNCHANGED <<srv_pc, retries, attempt>>
    /\ UNCHANGED notServer

\* cleanup()
Cleanup ==
    /\ srv_pc = "idle"
    /\ op' = "cleanup"
    /\ events' = <<>>
    /\ \E closed \in BOOLEAN : session' = AfterCleanup(session, closed)
    /\ outcome' = Returned(None)
    /\ init_ok' = FALSE
    /\ UNCHANGED <<srv_pc, retries, attempt>>
    /\ UNCHANGED notServer

\* list_tools()
ListTools ==
    /\ srv_pc = "idle"
    /\ op' = "list_tools"
    /\ IF session = None
       THEN /\ outcome' = Raised(NotInitialized)
            /\ events' = <<>>
       ELSE /\ events' = <<"list_tools">>
            /\ \/ outcome' = Returned("tools")
               \/ outcome' = Raised([type |-> "Exception", raised_by |-> "list_tools"])
    /\ UNCHANGED <<session, srv_pc, retries, attempt, init_ok>>
    /\ UNCHANGED notServer

\* execute_tool(tool_name, arguments, retries, delay): lines 89-92
ExecuteTool ==
    /\ srv_pc = "idle"
    /\ op' = "execute_tool"
    /\ retries' \in 0..MaxRetries
    /\ attempt' = 0
    /\ events' = <<>>
    /\ IF session = None
       THEN /\ outcome' = Raised(NotInitialized)
            /\ srv_pc' = "idle"
       ELSE /\ outcome' = NoOutcome
            /\ srv_pc' = "while"
    /\ UNCHANGED <<session, init_ok>>
    /\ UNCHANGED notServer

\* the number of call_tool invocations among the events
RECURSIVE NumCalls(_)
NumCalls(es) ==
    IF es = <<>> THEN 0
    ELSE NumCalls(Tail(es)) + (IF Head(es) \in {"call_ok", "call_failed"} THEN 1 ELSE 0)

\* line 104: if attempt < retries
RetryAfter(a, r) == a < r

\* lines 93-110: one iteration of the while loop
ExecuteAttempt ==
    /\ srv_pc = "while"
    /\ attempt < retries
    /\ \/ /\ events' = Append(events, "call_ok")
          /\ outcome' = Returned(ToolResult(NumCalls(events) + 1))
          /\ srv_pc' = "idle"
          /\ UNCHANGED attempt
       \/ /\ attempt' = attempt + 1
          /\ IF RetryAfter(attempt + 1, retries)
             THEN /\ events' = events \o <<"call_failed", "sleep">>
                  /\ UNCHANGED <<outcome, srv_pc>>
             ELSE /\ events' = Append(events, "call_failed")
                  /\ outcome' = Raised(ToolError(NumCalls(events) + 1))
                  /\ srv_pc' = "idle"
    /\ UNCHANGED <<session, op, retries, init_ok>>
    /\ UNCHANGED notServer

\* line 93 false: the function ends without a return statement
ExecuteFallsThrough ==
    /\ srv_pc = "while"
    /\ ~(attempt < retries)
    /\ outcome' = Returned(None)
    /\ srv_pc' = "idle"
    /\ UNCHANGED <<session, op, retries, attempt, events, init_ok>>
    /\ UNCHANGED notServer

ServerNext ==
    \/ Initialize
    \/ Cleanup
    \/ ListTools
    \/ ExecuteTool
    \/ ExecuteAttempt
    \/ ExecuteFallsThrough

SpecServer == ServerInit /\ [][ServerNext]_vars

(***************************************************************************)
(* Claims about Server.                                                    *)
(***************************************************************************)
IsCall(e) == e \in {"call_ok", "call_failed"}

\* C23: execute_tool on an initialized server, for every retries >= 0,
\* invokes call_tool at most retries times, makes no invocation after the
\* first success, sleeps between a failed attempt and the next one, and ends
\* either returning the result of the invocation that succeeded or raising;
\* when every attempt failed it raises the exception of the last attempt.
C23_ExecuteToolRetries ==
    (op = "execute_tool" /\ session # None) =>
        /\ NumCalls(events) <= retries
        /\ \A e \in 1..(Len(events) - 1) : events[e] # "call_ok"
        /\ \A e \in 1..(Len(events) - 1) :
               events[e] = "call_failed" =>
                   /\ events[e + 1] = "sleep"
                   /\ e + 2 <= Len(events) => IsCall(events[e + 2])
        /\ srv_pc = "idle" =>
               \/ /\ outcome = Returned(ToolResult(NumCalls(events)))
                  /\ events # <<>>
                  /\ events[Len(events)] = "call_ok"
               \/ /\ outcome = Raised(ToolError(NumCalls(events)))
                  /\ events # <<>>
                  /\ \A e \in 1..Len(events) : events[e] # "call_ok"

\* C24: list_tools and execute_tool raise RuntimeError without contacting the
\* server when session is None; between the calls session is not None
\* exactly when the last initialize succeeded and no cleanup ran since: a
\* failed initialize leaves session None and raises, a cleanup resets session
\* to None.
C24_SessionTracksInitialize ==
    srv_pc = "idle" =>
        /\ (op \in {"list_tools", "execute_tool"} /\ session = None)
               => outcome = Raised(NotInitialized) /\ events = <<>>
        /\ (session # None) <=> init_ok
        /\ (op = "initialize" /\ outcome.kind = "raised") => session = None
        /\ op = "cleanup" => session = None

(***************************************************************************)
(* knowledge-base-mcp/src/rag/document_loader.py: split_markdown_docs      *)
(***************************************************************************)
MaxDocs == 2
MaxSplits == 2

\* the documents handed in
Document(text, source) == [page_content |-> text, metadata |-> [source |-> source]]
DocTexts == { <<"#", " ", "A", NL, "b">>, <<SP>> }
DocSources == {"a.md", "b.md"}
DocLists(n) ==
    UNION { [1..m -> {Document(t, s) : t \in DocTexts, s \in DocSources}] : m \in 0..n }

\* what MarkdownHeaderTextSplitter.split_text can return for a text: a list of
\* splits, each with a page content and the metadata of its headers
SplitContents == { <<"b">>, <<SP>> }
Split1(text) == [page_content |-> text, metadata |-> [Header1 |-> "A"]]
SplitLists(n) ==
    UNION { [1..m -> {Split1(t) : t \in SplitContents}] : m \in 0..n }

\* line 84: split.metadata.update(source_metadata)
WithSource(split, source_metadata) ==
    [page_content |-> split.page_content,
     metadata |-> [Header1 |-> split.metadata.Header1, source |-> source_metadata.source]]

\* lines 83-88: the loop over the splits updates their metadata; its continue
\* for a split without content ends an iteration that has nothing after it
RECURSIVE UpdatedSplits(_, _)
UpdatedSplits(splits, source_metadata) ==
    IF splits = <<>> THEN <<>>
    ELSE <<WithSource(Head(splits), source_metadata)>>
             \o UpdatedSplits(Tail(splits), source_metadata)

LoaderInit ==
    /\ documents \in DocLists(MaxDocs)
    /\ split_docs = <<>>
    /\ doc_no = 0
    /\ kept = {}
    /\ loader_pc = "call"
    /\ OutsideLoaderIdle

\* lines 56-71: return [] for no documents, else the splitter and split_docs = []
SplitMarkdownDocs ==
    /\ loader_pc = "call"
    /\ loader_pc' = IF documents = <<>> THEN "done" ELSE "for"
    /\ split_docs' = <<>>
    /\ UNCHANGED <<documents, doc_no, kept>>
    /\ UNCHANGED notLoader

\* lines 72-92: one iteration of the loop over the documents; split_text
\* returns its splits or raises
SplitDocument ==
    /\ loader_pc = "for"
    /\ doc_no < Len(documents)
    /\ doc_no' = doc_no + 1
    /\ \/ \E splits \in SplitLists(MaxSplits) :
             /\ split_docs' = split_docs
                    \o UpdatedSplits(splits, documents[doc_no + 1].metadata)
             /\ UNCHANGED kept
       \/ /\ split_docs' = Append(split_docs, documents[doc_no + 1])
          /\ kept' = kept \cup {Len(split_docs) + 1}
    /\ UNCHANGED <<documents, loader_pc>>
    /\ UNCHANGED notLoader

\* lines 94-95: return split_docs
SplitReturn ==
    /\ loader_pc = "for"
    /\ doc_no = Len(documents)
    /\ loader_pc' = "done"
    /\ UNCHANGED <<documents, split_docs, doc_no, kept>>
    /\ UNCHANGED notLoader

LoaderNext == SplitMarkdownDocs \/ SplitDocument \/ SplitReturn

SpecLoader == LoaderInit /\ [][LoaderNext]_vars

(***************************************************************************)
(* Claims about split_markdown_docs.                                       *)
(***************************************************************************)
\* C25: split_markdown_docs skips every split whose page content is empty
\* after trimming: no document of the returned list has empty or
\* whitespace-only content unless it is an original document kept because
\* its splitting failed.
C25_EmptySplitsSkipped ==
    loader_pc = "done" =>
        \A n \in 1..Len(split_docs) :
            n \in kept \/ Strip(split_docs[n].page_content) # <<>>

(***************************************************************************)
(* knowledge-base-mcp/src/rag/web_ui/app.py: test_retrieval, lines 263-287 *)
(***************************************************************************)
MaxRequests == 2
MaxOutsidePrints == 1

\* the requests, each handled by a thread of its own
Requests == 1..MaxRequests

\* the closure capture_print of a request
CapturePrint(t) == [fn |-> "capture_print", request |-> t]

\* the call f(message): capture_print appends to the results of its request,
\* print writes to the standard output
Called(f, message, rs) ==
    IF f = PrintFunction THEN rs
    ELSE [rs EXCEPT ![f.request] = Append(@, message)]

PrintInit ==
    /\ builtins_print = PrintFunction
    /\ original_print = [t \in Requests |-> PrintFunction]
    /\ results = [t \in Requests |-> <<>>]
    /\ req_pc = [t \in Requests |-> "idle"]
    /\ outside_prints = 0
    /\ OutsidePrintIdle

\* lines 253-264: the request passed its checks, db = TiDBVectorStore(...),
\* results = []
BeginCapture(t) ==
    /\ req_pc[t] = "idle"
    /\ results' = [results EXCEPT ![t] = <<>>]
    /\ req_pc' = [req_pc EXCEPT ![t] = "save"]
    /\ UNCHANGED <<builtins_print, original_print, outside_prints>>
    /\ UNCHANGED notPrint

\* line 267: original_print = builtins.print
SaveOriginal(t) ==
    /\ req_pc[t] = "save"
    /\ original_print' = [original_print EXCEPT ![t] = builtins_print]
    /\ req_pc' = [req_pc EXCEPT ![t] = "replace"]
    /\ UNCHANGED <<builtins_print, results, outside_prints>>
    /\ UNCHANGED notPrint

\* line 275: builtins.print = capture_print
ReplacePrint(t) ==
    /\ req_pc[t] = "replace"
    /\ builtins_print' = CapturePrint(t)
    /\ req_pc' = [req_pc EXCEPT ![t] = "retrieve"]
    /\ UNCHANGED <<original_print, results, outside_prints>>
    /\ UNCHANGED notPrint

\* lines 277-279: simple_retrieval_test prints its result, or raises
Retrieve(t) ==
    /\ req_pc[t] = "retrieve"
    /\ \/ results' = Called(builtins_print, <<"retrieved", t>>, results)
       \/ UNCHANGED results
    /\ req_pc' = [req_pc EXCEPT ![t] = "finally"]
    /\ UNCHANGED <<builtins_print, original_print, outside_prints>>
    /\ UNCHANGED notPrint

\* lines 280-287: builtins.print = original_print, then the response
RestorePrint(t) ==
    /\ req_pc[t] = "finally"
    /\ builtins_print' = original_print[t]
    /\ req_pc' = [req_pc EXCEPT ![t] = "done"]
    /\ UNCHANGED <<original_print, results, outside_prints>>
    /\ UNCHANGED notPrint

\* a print call of a thread that is in no test_retrieval request (the prints
\* of document_loader.py during an upload_documents request)
OutsidePrint ==
    /\ outside_prints < MaxOutsidePrints
    /\ outside_prints' = outside_prints + 1
    /\ results' = Called(builtins_print, <<"outside", 0>>, results)
    /\ UNCHANGED <<builtins_print, original_print, req_pc>>
    /\ UNCHANGED notPrint

PrintNext ==
    \/ \E t \in Requests :
           \/ BeginCapture(t)
           \/ SaveOriginal(t)
           \/ ReplacePrint(t)
           \/ Retrieve(t)
           \/ RestorePrint(t)
    \/ OutsidePrint

SpecPrint == PrintInit /\ [][PrintNext]_vars

(***************************************************************************)
(* Claims about the capture of print.                                      *)
(***************************************************************************)
\* C28: once every test_retrieval request has completed, builtins.print is
\* the original print function again, for every interleaving of requests and
\* also when the retrieval raised; nothing printed outside a request is in
\* the results of a request.
C28_PrintRestored ==
    /\ (\A t \in Requests : req_pc[t] \in {"idle", "done"}) => builtins_print = PrintFunction
    /\ \A t \in Requests :
           \A n \in 1..Len(results[t]) : results[t][n] # <<"outside", 0>>

(***************************************************************************)
(* tidb-pr-mcp/src/main.py: get_pr_reviewers, lines 180-221                *)
(***************************************************************************)
MaxComments == 2
per_page == 30
max_pages == 5

\* the comments of a page: of ti-chi-bot with and without the marker
\* [APPROVALNOTIFIER] in the body, of another user, and one whose user is
\* null (comment.get('user', {}) is None and .get raises)
Comment(login, marker) == [login |-> login, marker |-> marker]
NullUser == [user |-> None]
Comments ==
    { Comment("ti-chi-bot[bot]", TRUE), Comment("ti-chi-bot", FALSE),
      Comment("alice", TRUE), NullUser }

\* what make_github_request returns: a dict with "error", an empty list, a
\* dict without "error", or a list of count comments that begins with first
ErrorPage == [kind |-> "error"]
EmptyPage == [kind |-> "empty"]
DictPage == [kind |-> "dict"]
ListPage(first, count) == [kind |-> "list", first |-> first, count |-> count]
Pages(n) ==
    {ErrorPage, EmptyPage, DictPage}
        \cup { ListPage(first, count) :
                   first \in UNION {[1..m -> Comments] : m \in 1..n},
                   count \in {n, per_page} }

\* lines 204-207: the comment is ti-chi-bot's approval notification
IsNotifier(c) == c.login \in {"ti-chi-bot", "ti-chi-bot[bot]"} /\ c.marker

\* lines 203-209: the loop over the comments: "raised" at a comment whose
\* user is null, the number of the first notification, 0 when there is none
RECURSIVE Scan(_, _)
Scan(cs, n) ==
    IF n > Len(cs) THEN [found |-> 0, raised |-> FALSE]
    ELSE IF cs[n] = NullUser THEN [found |-> 0, raised |-> TRUE]
    ELSE IF IsNotifier(cs[n]) THEN [found |-> n, raised |-> FALSE]
    ELSE Scan(cs, n + 1)

\* line 211: len(comments_data) < params["per_page"]
ShortPage(count) == count < per_page

ErrorFetching == "Error fetching PR comments"
ErrorProcessing == "Error processing PR comments"
NoApproval == "No approval notification found from ti-chi-bot"
Parsed == "approval comment parsed"

PrInit ==
    /\ page = 1
    /\ approval_comment = None
    /\ requested = <<>>
    /\ comments_data = None
    /\ pr_result = NoResult
    /\ pr_pc = "while"
    /\ OutsideReviewersIdle

\* lines 193-216: one iteration of the while loop
FetchPage ==
    /\ pr_pc = "while"
    /\ approval_comment = None /\ page <= max_pages
    /\ requested' = Append(requested, page)
    /\ \E data \in Pages(MaxComments) :
           /\ comments_data' = data
           /\ IF data.kind = "error"
              THEN /\ pr_result' = ErrorFetching
                   /\ pr_pc' = "returned"
                   /\ UNCHANGED <<page, approval_comment>>
              ELSE IF data.kind \in {"empty", "dict"}
              THEN /\ pr_pc' = "after"
                   /\ UNCHANGED <<page, approval_comment, pr_result>>
              ELSE LET scan == Scan(data.first, 1)
                   IN  IF scan.raised
                       THEN /\ pr_result' = ErrorProcessing
                            /\ pr_pc' = "returned"
                            /\ UNCHANGED <<page, approval_comment>>
                       ELSE IF scan.found > 0
                       THEN /\ approval_comment' = data.first[scan.found]
                            /\ pr_pc' = "after"
                            /\ UNCHANGED <<page, pr_result>>
                       ELSE IF ShortPage(data.count)
                       THEN /\ pr_pc' = "after"
                            /\ UNCHANGED <<page, approval_comment, pr_result>>
                       ELSE /\ page' = page + 1
                            /\ UNCHANGED <<approval_comment, pr_result, pr_pc>>
    /\ UNCHANGED notReviewers

\* line 193: the condition of the while loop false
PagesExhausted ==
    /\ pr_pc = "while"
    /\ ~(approval_comment = None /\ page <= max_pages)
    /\ pr_pc' = "after"
    /\ UNCHANGED <<page, approval_comment, requested, comments_data, pr_result>>
    /\ UNCHANGED notReviewers

\* lines 218-219: no approval comment found
ReturnNoApproval ==
    /\ pr_pc = "after"
    /\ approval_comment = None
    /\ pr_result' = NoApproval
    /\ pr_pc' = "returned"
    /\ UNCHANGED <<page, approval_comment, requested, comments_data>>
    /\ UNCHANGED notReviewers

\* lines 221 and on: the approval comment is parsed and reported
ParseApproval ==
    /\ pr_pc = "after"
    /\ approval_comment # None
    /\ pr_result' = Parsed
    /\ pr_pc' = "returned"
    /\ UNCHANGED <<page, approval_comment, requested, comments_data>>
    /\ UNCHANGED notReviewers

ReviewersNext == FetchPage \/ PagesExhausted \/ ReturnNoApproval \/ ParseApproval

\* the coroutine runs to its end: every await returns (the request has a
\* timeout, line 36)
SpecReviewers == PrInit /\ [][ReviewersNext]_vars /\ WF_vars(ReviewersNext)


\* a page that holds an approval notification of ti-chi-bot
HasNotifier(data) ==
    /\ data.kind = "list"
    /\ \E n \in 1..Len(data.first) :
           data.first[n] # NullUser /\ IsNotifier(data.first[n])

\* C29: get_pr_reviewers requests the pages 1, 2, ... in order, at most 5 of
\* them; once it has returned, it returned the fetching error exactly when the
\* last request reported an error, and otherwise it went on to the approval
\* comment when the last page holds one and returned 'No approval
\* notification found' when no page holds one
C29_ReviewersPaging ==
    /\ Len(requested) <= max_pages
    /\ \A n \in 1..Len(requested) : requested[n] = n
    /\ pr_pc = "returned" =>
           /\ requested # <<>>
           /\ (pr_result = ErrorFetching) = (comments_data = ErrorPage)
           /\ comments_data # ErrorPage =>
                  pr_result = IF HasNotifier(comments_data) THEN Parsed ELSE NoApproval


(***************************************************************************)
(* knowledge-base-mcp/src/rag/web_ui/app.py: the handlers that read or     *)
(* write session['tidb_connection_string']                                 *)
(***************************************************************************)
MaxUiRequests == 4

\* the values of the form fields
ConnectionStrings == {Absent, Field(""), Field("mysql://a"), Field("mysql://b")}
TableNames == {Absent, Field(""), Field("docs")}
Queries == {Absent, Field("tikv")}
ApiKeys == {Absent, Field("sk-1")}
KValues == {Absent, Field(<<"3">>), Field(<<>>), Field(<<"a", "b", "c">>)}
ThresholdValues == {Absent, Field(<<"0", ".", "5">>), Field(<<"h", "i", "g", "h">>)}

\* Python's truth value of request.form.get(...) and session.get(...): None
\* and '' are false
Truthy(f) == f.present /\ f.value # ""

Digits == {"0", "1", "2", "3", "4", "5", "6", "7", "8", "9"}

\* int(request.form.get('k', 3)) returns: the default 3 is an int already,
\* a string must be decimal digits (the only numerals among KValues)
IntParses(v) ==
    \/ ~v.present
    \/ /\ v.value # <<>>
       /\ \A n \in 1..Len(v.value) : v.value[n] \in Digits

\* float(request.form.get('threshold', 0.5)) returns: digits with at most
\* one point and a digit somewhere
FloatParses(v) ==
    \/ ~v.present
    \/ /\ \A n \in 1..Len(v.value) : v.value[n] \in Digits \cup {"."}
       /\ \E n \in 1..Len(v.value) : v.value[n] \in Digits
       /\ Cardinality({n \in 1..Len(v.value) : v.value[n] = "."}) <= 1

\* jsonify({'success': ..., 'message': ...}) of a handler
Json(handler, success, message) ==
    [handler |-> handler, status |-> 200, success |-> success, message |-> message]

\* the answer of Flask to a handler that raised: 500 Internal Server Error
ServerError(handler, exception) ==
    [handler |-> handler, status |-> 500, success |-> FALSE, message |-> exception]

NotInSession == "Connection string not found in session"

UiInit ==
    /\ flask_session = Absent
    /\ response = NoResponse
    /\ last_ping = Absent
    /\ ui_requests = 0
    /\ OutsideUiIdle

\* what every request does besides its handler
Answered ==
    /\ ui_requests < MaxUiRequests
    /\ ui_requests' = ui_requests + 1
    /\ UNCHANGED notUi

\* lines 50-67
PingTidb ==
    /\ Answered
    /\ \E connection_string \in ConnectionStrings, success \in BOOLEAN :
           IF ~Truthy(connection_string)
           THEN /\ response' = Json("ping_tidb", FALSE, "Connection string is required")
                /\ UNCHANGED <<flask_session, last_ping>>
           ELSE /\ flask_session' = connection_string
                /\ last_ping' = connection_string
                /\ response' = Json("ping_tidb", success,
                                    IF success THEN "Connection successful" ELSE "Connection failed")

\* lines 69-83
GetTables ==
    /\ Answered
    /\ \E success \in BOOLEAN :
           response' =
               IF ~Truthy(flask_session) THEN Json("get_tables", FALSE, NotInSession)
               ELSE IF success THEN Json("get_tables", TRUE, "tables")
               ELSE Json("get_tables", FALSE, "list_tidb_tables failed")
    /\ UNCHANGED <<flask_session, last_ping>>

\* lines 85-104
DropTable ==
    /\ Answered
    /\ \E table_name \in TableNames, success \in BOOLEAN :
           response' =
               IF ~Truthy(flask_session) THEN Json("drop_table", FALSE, NotInSession)
               ELSE IF ~Truthy(table_name) THEN Json("drop_table", FALSE, "Table name is required")
               ELSE Json("drop_table", success, "drop_tidb_table")
    /\ UNCHANGED <<flask_session, last_ping>>

\* lines 106-217
UploadDocuments ==
    /\ Answered
    /\ \E table_name \in TableNames, api_key \in ApiKeys, success \in BOOLEAN :
           response' =
               IF ~Truthy(flask_session) THEN Json("upload_documents", FALSE, NotInSession)
               ELSE IF ~Truthy(table_name)
               THEN Json("upload_documents", FALSE, "Table name is required")
               ELSE IF ~Truthy(api_key)
               THEN Json("upload_documents", FALSE, "API key information is required")
               ELSE Json("upload_documents", success, "documents processed")
    /\ UNCHANGED <<flask_session, last_ping>>

\* lines 219-287: k and threshold are converted (lines 225-226) before the
\* session is looked at (line 230)
TestRetrieval ==
    /\ Answered
    /\ \E table_name \in TableNames, query \in Queries, api_key \in ApiKeys,
          form_k \in KValues, threshold \in ThresholdValues, success \in BOOLEAN :
           response' =
               IF ~IntParses(form_k) \/ ~FloatParses(threshold)
               THEN ServerError("test_retrieval", "ValueError")
               ELSE IF ~Truthy(flask_session)
               THEN Json("test_retrieval", FALSE, NotInSession)
               ELSE IF ~Truthy(table_name)
               THEN Json("test_retrieval", FALSE, "Table name is required")
               ELSE IF ~Truthy(query)
               THEN Json("test_retrieval", FALSE, "Query is required")
               ELSE IF ~Truthy(api_key)
               THEN Json("test_retrieval", FALSE, "API key information is required")
               ELSE Json("test_retrieval", success, "retrieval")
    /\ UNCHANGED <<flask_session, last_ping>>

UiNext == PingTidb \/ GetTables \/ DropTable \/ UploadDocuments \/ TestRetrieval

SpecUi == UiInit /\ [][UiNext]_vars

\* the handlers that need the connection string of the session
NeedSession == {"get_tables", "drop_table", "upload_documents", "test_retrieval"}

\* C30: until a ping_tidb with a non-empty connection string has been made,
\* get_tables, drop_table, upload_documents and test_retrieval answer success
\* false with 'Connection string not found in session'; the session holds
\* exactly the string of the latest such ping, whether its test succeeded or not
C30_SessionGate ==
    /\ (response.handler \in NeedSession /\ last_ping = Absent) =>
           response = Json(response.handler, FALSE, NotInSession)
    /\ flask_session = last_ping

=============================================================================
